---------------------------- MODULE Spec2Model ----------------------------
(***************************************************************************)
(* Hybrid Knowledge Synthesizer: the LangGraph pipeline                    *)
(*   PII Filter -> Router -> [Databricks Agent | Azure Agent] -> Synthesizer*)
(* Texts are sequences of one-character strings, so that the regular       *)
(* expressions of the PII filter and the string normalisation of the       *)
(* router are computed character by character.                             *)
(***************************************************************************)
EXTENDS Integers, Sequences, FiniteSets, TLC

(***************************************************************************)
(* Characters and texts                                                    *)
(***************************************************************************)
LowerSeq == <<"a", "b", "c", "d", "e", "f", "g", "h", "i", "j", "k", "l", "m",
              "n", "o", "p", "q", "r", "s", "t", "u", "v", "w", "x", "y", "z">>
UpperSeq == <<"A", "B", "C", "D", "E", "F", "G", "H", "I", "J", "K", "L", "M",
              "N", "O", "P", "Q", "R", "S", "T", "U", "V", "W", "X", "Y", "Z">>

Range(s) == {s[i] : i \in 1..Len(s)}

LowerAlpha == Range(LowerSeq)
UpperAlpha == Range(UpperSeq)
Alpha      == LowerAlpha \cup UpperAlpha
Digit      == {"0", "1", "2", "3", "4", "5", "6", "7", "8", "9"}
\* \s of the re module, on the ASCII range
Whitespace == {" ", "\t", "\n", "\r", "\f"}
\* \w of the re module, on the ASCII range
WordChar   == Alpha \cup Digit \cup {"_"}

IndexOf(s, c) == CHOOSE i \in 1..Len(s) : s[i] = c

\* str.upper(), character by character
UpperChar(c) == IF c \in LowerAlpha THEN UpperSeq[IndexOf(LowerSeq, c)] ELSE c
upper(t) == [i \in 1..Len(t) |-> UpperChar(t[i])]

\* str.lower(), character by character
LowerChar(c) == IF c \in UpperAlpha THEN LowerSeq[IndexOf(UpperSeq, c)] ELSE c
lower(t) == [i \in 1..Len(t) |-> LowerChar(t[i])]

\* the text as one string value
RECURSIVE Str(_)
Str(t) == IF t = <<>> THEN "" ELSE Head(t) \o Str(Tail(t))

\* ", ".join(names)
RECURSIVE Join(_)
Join(names) ==
    IF names = <<>> THEN ""
    ELSE IF Len(names) = 1 THEN names[1]
    ELSE names[1] \o ", " \o Join(Tail(names))

\* a wait that grows with n times the base
Power_linear(base, n) == <<base[1] * n, base[2]>>

\* base ** n for a fraction base (exact for the floats the code computes)
RECURSIVE Power(_, _)
Power(base, n) ==
    IF n = 0 THEN <<1, 1>>
    ELSE LET rest == Power(base, n - 1) IN <<base[1] * rest[1], base[2] * rest[2]>>

\* needle in text (substring test of the in operator on str)
OccursIn(needle, text) ==
    \E i \in 1..(Len(text) - Len(needle) + 1) :
        SubSeq(text, i, i + Len(needle) - 1) = needle

(***************************************************************************)
(* Regular expressions: a pattern is a sequence of elements, each a        *)
(* character class with a greedy repetition {lo,hi} ({lo,} when unbounded) *)
(* or the word-boundary assertion \b.  Matching is the backtracking        *)
(* search of the re module: the longest repetition is tried first.         *)
(***************************************************************************)
Rep(cls, lo, hi) == [kind |-> "cls", cls |-> cls, lo |-> lo, hi |-> hi, unbounded |-> FALSE]
AtLeast(cls, lo) == [kind |-> "cls", cls |-> cls, lo |-> lo, hi |-> lo, unbounded |-> TRUE]
One(cls)         == Rep(cls, 1, 1)
Opt(cls)         == Rep(cls, 0, 1)
WordBoundary     == [kind |-> "b", cls |-> {}, lo |-> 0, hi |-> 0, unbounded |-> FALSE]

\* \b holds at pos: exactly one of text[pos-1], text[pos] is a word character
IsBoundary(text, pos) ==
    (pos > 1 /\ text[pos - 1] \in WordChar) # (pos <= Len(text) /\ text[pos] \in WordChar)

\* how many characters from pos on are in the class of element e (at most its hi)
RECURSIVE Run(_, _, _, _)
Run(text, pos, e, n) ==
    IF pos + n <= Len(text) /\ text[pos + n] \in e.cls /\ (e.unbounded \/ n < e.hi)
    THEN Run(text, pos, e, n + 1)
    ELSE n

\* the position after the match of elements k.. of pat at pos, 0 when none
RECURSIVE MatchFrom(_, _, _, _)
RECURSIVE TryCount(_, _, _, _, _)
MatchFrom(pat, k, text, pos) ==
    IF k > Len(pat) THEN pos
    ELSE IF pat[k].kind = "b"
         THEN IF IsBoundary(text, pos) THEN MatchFrom(pat, k + 1, text, pos) ELSE 0
         ELSE TryCount(pat, k, text, pos, Run(text, pos, pat[k], 0))
TryCount(pat, k, text, pos, n) ==
    IF n < pat[k].lo THEN 0
    ELSE LET r == MatchFrom(pat, k + 1, text, pos + n)
         IN  IF r # 0 THEN r ELSE TryCount(pat, k, text, pos, n - 1)

\* pattern.search(text): the leftmost match as <<start, end>> (end exclusive), <<0, 0>> when none
RECURSIVE SearchFrom(_, _, _)
SearchFrom(pat, text, pos) ==
    IF pos > Len(text) + 1 THEN <<0, 0>>
    ELSE LET e == MatchFrom(pat, 1, text, pos)
         IN  IF e # 0 THEN <<pos, e>> ELSE SearchFrom(pat, text, pos + 1)
search(pat, text) == SearchFrom(pat, text, 1)

\* pattern.sub(repl, text): every leftmost non-overlapping match replaced
RECURSIVE SubFrom(_, _, _, _)
SubFrom(pat, repl, text, pos) ==
    IF pos > Len(text) THEN <<>>
    ELSE LET e == MatchFrom(pat, 1, text, pos)
         IN  IF e > pos THEN repl \o SubFrom(pat, repl, text, e)
             ELSE <<text[pos]>> \o SubFrom(pat, repl, text, pos + 1)

\* a substitution of the leftmost match only (count=1)
RECURSIVE SubFirstFrom(_, _, _, _)
SubFirstFrom(pat, repl, text, pos) ==
    IF pos > Len(text) THEN <<>>
    ELSE LET e == MatchFrom(pat, 1, text, pos)
         IN  IF e > pos THEN repl \o SubSeq(text, e, Len(text))
             ELSE <<text[pos]>> \o SubFirstFrom(pat, repl, text, pos + 1)
sub_first(pat, repl, text) == SubFirstFrom(pat, repl, text, 1)

\* pattern.sub(repl, text)
sub(pat, repl, text) == SubFrom(pat, repl, text, 1)

(***************************************************************************)
(* nodes/pii_filter.py                                                     *)
(***************************************************************************)
EmailLocal  == Alpha \cup Digit \cup {".", "_", "%", "+", "-"}
EmailDomain == Alpha \cup Digit \cup {".", "-"}
PhoneSep    == Whitespace \cup {".", "-"}
CardSep     == Whitespace \cup {"-"}

\* [a-zA-Z0-9._%+-]+@[a-zA-Z0-9.-]+\.[a-zA-Z]{2,}
EmailPattern ==
    << AtLeast(EmailLocal, 1), One({"@"}), AtLeast(EmailDomain, 1), One({"."}), AtLeast(Alpha, 2) >>
\* \+?\d{1,3}[\s.-]?\(?\d{2,4}\)?[\s.-]?\d{3,4}[\s.-]?\d{3,4}
PhonePattern ==
    << Opt({"+"}), Rep(Digit, 1, 3), Opt(PhoneSep), Opt({"("}), Rep(Digit, 2, 4), Opt({")"}),
       Opt(PhoneSep), Rep(Digit, 3, 4), Opt(PhoneSep), Rep(Digit, 3, 4) >>
\* \b\d{4}[\s-]?\d{4}[\s-]?\d{4}[\s-]?\d{4}\b
CreditCardPattern ==
    << WordBoundary, Rep(Digit, 4, 4), Opt(CardSep), Rep(Digit, 4, 4), Opt(CardSep),
       Rep(Digit, 4, 4), Opt(CardSep), Rep(Digit, 4, 4), WordBoundary >>
\* \b\d{2}\s?\d{6}\s?[A-Z]\s?\d{3}\b
GermanSsnPattern ==
    << WordBoundary, Rep(Digit, 2, 2), Opt(Whitespace), Rep(Digit, 6, 6), Opt(Whitespace),
       One(UpperAlpha), Opt(Whitespace), Rep(Digit, 3, 3), WordBoundary >>
\* \bDE\d{2}\s?\d{4}\s?\d{4}\s?\d{4}\s?\d{4}\s?\d{2}\b with re.IGNORECASE
IbanDePattern ==
    << WordBoundary, One({"D", "d"}), One({"E", "e"}), Rep(Digit, 2, 2), Opt(Whitespace),
       Rep(Digit, 4, 4), Opt(Whitespace), Rep(Digit, 4, 4), Opt(Whitespace), Rep(Digit, 4, 4),
       Opt(Whitespace), Rep(Digit, 4, 4), Opt(Whitespace), Rep(Digit, 2, 2), WordBoundary >>

\* the dict _PII_PATTERNS, in its insertion order (the order of .items())
PII_PATTERNS ==
    << [name |-> <<"e", "m", "a", "i", "l">>, pattern |-> EmailPattern],
       [name |-> <<"p", "h", "o", "n", "e", "_", "i", "n", "t", "e", "r", "n", "a", "t", "i", "o", "n", "a", "l">>,
        pattern |-> PhonePattern],
       [name |-> <<"c", "r", "e", "d", "i", "t", "_", "c", "a", "r", "d">>, pattern |-> CreditCardPattern],
       [name |-> <<"g", "e", "r", "m", "a", "n", "_", "s", "s", "n">>, pattern |-> GermanSsnPattern],
       [name |-> <<"i", "b", "a", "n", "_", "d", "e">>, pattern |-> IbanDePattern] >>

\* a redaction that puts nothing in the place of a match
RedactionToken_empty(name) == <<>>

\* f"[REDACTED_{pii_type.upper()}]"
RedactionToken(name) ==
    <<"[", "R", "E", "D", "A", "C", "T", "E", "D", "_">> \o upper(name) \o <<"]">>

\* detect_pii: the names of the patterns that match, in the order of the dict
RECURSIVE DetectFrom(_, _)
DetectFrom(text, k) ==
    IF k > Len(PII_PATTERNS) THEN <<>>
    ELSE (IF search(PII_PATTERNS[k].pattern, text)[1] # 0
          THEN <<Str(PII_PATTERNS[k].name)>> ELSE <<>>) \o DetectFrom(text, k + 1)
detect_pii(text) == DetectFrom(text, 1)

\* sanitize_query: the patterns substituted one after the other, each on the
\* result of the one before, in the order of the dict
RECURSIVE SanitizeWith(_, _)
SanitizeWith(patterns, text) ==
    IF patterns = <<>> THEN text
    ELSE SanitizeWith(Tail(patterns),
                      sub(patterns[1].pattern, RedactionToken(patterns[1].name), text))
sanitize_query(text) == SanitizeWith(PII_PATTERNS, text)

\* pii_filter_node writing the query whether or not anything was detected
pii_filter_node_always_writing(state) ==
    LET query == IF "query" \in DOMAIN state THEN state["query"] ELSE <<>>
        detected_types == detect_pii(query)
    IN  IF detected_types # <<>>
        THEN [query        |-> sanitize_query(query),
              pii_detected |-> TRUE,
              errors       |-> <<"PII detected and redacted: " \o Join(detected_types)>>]
        ELSE [query |-> query, pii_detected |-> FALSE]

\* pii_filter_node redacting without a word in errors
pii_filter_node_redacting_silently(state) ==
    LET query == IF "query" \in DOMAIN state THEN state["query"] ELSE <<>>
    IN  IF query # <<>> /\ detect_pii(query) # <<>>
        THEN [query |-> sanitize_query(query), pii_detected |-> TRUE]
        ELSE [pii_detected |-> FALSE]

\* pii_filter_node: the partial update of the PII filter stage
pii_filter_node(state) ==
    LET query == IF "query" \in DOMAIN state THEN state["query"] ELSE <<>>
        detected_types == detect_pii(query)
    IN  IF query = <<>> THEN [pii_detected |-> FALSE]
        ELSE IF detected_types # <<>>
             THEN [query        |-> sanitize_query(query),
                   pii_detected |-> TRUE,
                   errors       |-> <<"PII detected and redacted: " \o Join(detected_types)>>]
             ELSE [pii_detected |-> FALSE]

(***************************************************************************)
(* state.py: the shared state and its reducers                             *)
(***************************************************************************)
\* the fields annotated with a reducer (add_messages, operator.add): they
\* accumulate; every other field is overwritten
ReducerFields == {"messages", "sources", "errors"}

\* state.get(field, default)
Get(state, field, default) == IF field \in DOMAIN state THEN state[field] ELSE default

\* the graph's merge of a node's partial update into the state
\* every field overwritten by the update, the reducer fields too
Merge_overwriting(state, update) ==
    [f \in (DOMAIN state) \cup (DOMAIN update) |->
        IF f \in DOMAIN update THEN update[f] ELSE state[f]]

Merge(state, update) ==
    [f \in (DOMAIN state) \cup (DOMAIN update) |->
        IF f \notin DOMAIN update THEN state[f]
        ELSE IF f \in ReducerFields /\ f \in DOMAIN state THEN state[f] \o update[f]
        ELSE update[f]]

\* the state the graph starts from on app_graph.invoke({"query": q, "messages": []}):
\* the reducer channels start empty, the other fields are absent until written
InitialState(q) == [query |-> q, messages |-> <<>>, sources |-> <<>>, errors |-> <<>>]

(***************************************************************************)
(* The text-generation backend as the nodes see it: _get_llm() returns     *)
(* None (not configured) or a client; llm.invoke raises or returns content *)
(***************************************************************************)
NoLlm            == [kind |-> "none"]
LlmRaises(exc)   == [kind |-> "raise", exc |-> exc]
LlmReturns(text) == [kind |-> "content", content |-> text]

(***************************************************************************)
(* nodes/router.py                                                         *)
(***************************************************************************)
VALID_ROUTES == {"silo_a", "silo_b", "both"}

\* str.strip(): leading and trailing whitespace removed
RECURSIVE lstrip(_)
lstrip(t) == IF t # <<>> /\ Head(t) \in Whitespace THEN lstrip(Tail(t)) ELSE t
RECURSIVE rstrip(_)
rstrip(t) == IF t # <<>> /\ t[Len(t)] \in Whitespace THEN rstrip(SubSeq(t, 1, Len(t) - 1)) ELSE t
strip(t) == rstrip(lstrip(t))

\* the normalization without lower()
Normalize_keeping_case(content) == Str(strip(content))

\* response.content.strip().lower()
Normalize(content) == Str(lower(strip(content)))

\* router_node with a diagnostic for an answer outside VALID_ROUTES
router_node_reporting_invalid(state, llm) ==
    LET query == Get(state, "query", <<>>)
    IN  IF query = <<>> THEN [route_decision |-> "both"]
        ELSE IF llm.kind = "none" THEN [route_decision |-> "both"]
        ELSE IF llm.kind = "raise"
             THEN [route_decision |-> "both", errors |-> <<"Router error: " \o llm.exc>>]
        ELSE LET decision == Str(lower(strip(llm.content)))
             IN  IF decision \notin {"silo_a", "silo_b", "both"}
                 THEN [route_decision |-> "both", errors |-> <<"Router error: invalid decision">>]
                 ELSE [route_decision |-> decision]

\* router_node without the test against VALID_ROUTES
router_node_unvalidated(state, llm) ==
    LET query == Get(state, "query", <<>>)
    IN  IF query = <<>> THEN [route_decision |-> "both"]
        ELSE IF llm.kind = "none" THEN [route_decision |-> "both"]
        ELSE IF llm.kind = "raise"
             THEN [route_decision |-> "both", errors |-> <<"Router error: " \o llm.exc>>]
        ELSE [route_decision |-> Str(lower(strip(llm.content)))]

\* router_node: the partial update of the Router, llm being what _get_llm()
\* and llm.invoke do (consulted only for a non-empty query)
router_node(state, llm) ==
    LET query == Get(state, "query", <<>>)
    IN  IF query = <<>> THEN [route_decision |-> "both"]
        ELSE IF llm.kind = "none" THEN [route_decision |-> "both"]
        ELSE IF llm.kind = "raise"
             THEN [route_decision |-> "both", errors |-> <<"Router error: " \o llm.exc>>]
        ELSE LET decision == Normalize(llm.content)
             IN  IF decision \notin VALID_ROUTES
                 THEN [route_decision |-> "both"]
                 ELSE [route_decision |-> decision]

(***************************************************************************)
(* graph.py: the edges                                                     *)
(***************************************************************************)
\* _route_decision: the conditional edge after the router
route_decision_edge(state) ==
    LET decision == Get(state, "route_decision", "both")
    IN  IF decision = "silo_a" THEN "silo_a_only"
        ELSE IF decision = "silo_b" THEN "silo_b_only"
        ELSE "both_silos"

\* a path map that starts the 'both' branch at Silo-B
RouterPathMap_both_to_azure(branch) ==
    IF branch = "silo_a_only" THEN "databricks_agent" ELSE "azure_agent"

\* the path map of the conditional edge after the router
RouterPathMap(branch) ==
    IF branch = "silo_a_only" THEN "databricks_agent"
    ELSE IF branch = "silo_b_only" THEN "azure_agent"
    ELSE "databricks_agent"

\* after_databricks_edge without its test of the route: Silo-B always follows Silo-A
after_databricks_edge_always_azure(state) == "azure_agent"

\* the continuation check with the default of the initial edge
after_databricks_edge_defaulting(state) ==
    IF Get(state, "route_decision", "both") = "both" THEN "azure_agent" ELSE "synthesizer"

\* the conditional edge after databricks_agent (the lambda and its path map)
after_databricks_edge(state) ==
    IF Get(state, "route_decision", "") = "both" THEN "azure_agent" ELSE "synthesizer"

\* NextNode with an edge from azure_agent to END: a path around the synthesizer
NextNode_bypassing_synthesizer(node, state) ==
    IF node = "START" THEN "pii_filter"
    ELSE IF node = "pii_filter" THEN "router"
    ELSE IF node = "router" THEN RouterPathMap(route_decision_edge(state))
    ELSE IF node = "databricks_agent" THEN after_databricks_edge(state)
    ELSE "END"

\* NextNode with the entry edge set on the router: the PII filter is not on the path
NextNode_entering_at_router(node, state) ==
    IF node = "START" THEN "router"
    ELSE IF node = "pii_filter" THEN "router"
    ELSE IF node = "router" THEN RouterPathMap(route_decision_edge(state))
    ELSE IF node = "databricks_agent" THEN after_databricks_edge(state)
    ELSE IF node = "azure_agent" THEN "synthesizer"
    ELSE "END"

\* the node that runs after `node` has returned and its update is merged into state
NextNode(node, state) ==
    IF node = "START" THEN "pii_filter"
    ELSE IF node = "pii_filter" THEN "router"
    ELSE IF node = "router" THEN RouterPathMap(route_decision_edge(state))
    ELSE IF node = "databricks_agent" THEN after_databricks_edge(state)
    ELSE IF node = "azure_agent" THEN "synthesizer"
    ELSE "END"

(***************************************************************************)
(* nodes/databricks_agent.py                                               *)
(***************************************************************************)
\* abbreviated: the first line of the mock text
DATABRICKS_MOCK_CONTEXT == "[MOCK DATA - Databricks Vector Search unavailable]"
DATABRICKS_MAX_RETRIES == 2
\* RETRY_BACKOFF_BASE = 1.5, as the fraction <<numerator, denominator>>
DATABRICKS_RETRY_BACKOFF_BASE == <<3, 2>>

\* "\n\n".join(parts)
RECURSIVE JoinParts(_)
JoinParts(parts) ==
    IF parts = <<>> THEN ""
    ELSE IF Len(parts) = 1 THEN parts[1]
    ELSE parts[1] \o "\n\n" \o JoinParts(Tail(parts))

\* a row of data_array is [content, title, source], possibly shorter
DatabricksTitle(row)   == IF Len(row) > 1 THEN row[2] ELSE "Unknown"
DatabricksContent(row) == IF Len(row) > 0 THEN row[1] ELSE ""
DatabricksSource(row)  == IF Len(row) > 2 THEN row[3] ELSE "databricks"

\* a result that takes the mock data when there is no row
DatabricksResult_mock_when_empty(rows) ==
    IF rows = <<>>
    THEN << "[MOCK DATA - Databricks Vector Search unavailable]",
            <<"[MOCK/FALLBACK] Databricks data">> >>
    ELSE << JoinParts([i \in 1..Len(rows) |->
                "[" \o DatabricksTitle(rows[i]) \o "]: " \o DatabricksContent(rows[i])]),
            [i \in 1..Len(rows) |->
                "Databricks/" \o DatabricksSource(rows[i]) \o "/" \o DatabricksTitle(rows[i])] >>

\* what one successful query_index attempt returns: <<context, sources>>
DatabricksResult(rows) ==
    IF rows = <<>> THEN << "No relevant engineering documents found.", <<>> >>
    ELSE << JoinParts([i \in 1..Len(rows) |->
                "[" \o DatabricksTitle(rows[i]) \o "]: " \o DatabricksContent(rows[i])]),
            [i \in 1..Len(rows) |->
                "Databricks/" \o DatabricksSource(rows[i]) \o "/" \o DatabricksTitle(rows[i])] >>

\* the return for an empty query made of the mock data
DatabricksEmptyQuery_with_mock ==
    [context_silo_a |-> "[MOCK DATA - Databricks Vector Search unavailable]",
     sources |-> <<"[MOCK] Databricks/ML Pipeline Architecture v2.3",
                   "[MOCK] Databricks/Signal Processing Module">>]

\* the mock return without its sources
DatabricksMock_without_sources ==
    [context_silo_a |-> "[MOCK DATA - Databricks Vector Search unavailable]",
     sources |-> <<>>]

\* the returns of databricks_agent_node
DatabricksEmptyQuery ==
    [context_silo_a |-> "", errors |-> <<"Databricks agent received empty query">>]
DatabricksMock ==
    [context_silo_a |-> DATABRICKS_MOCK_CONTEXT,
     sources |-> <<"[MOCK] Databricks/ML Pipeline Architecture v2.3",
                   "[MOCK] Databricks/Signal Processing Module">>]
\* a Silo-A return that writes route_decision too
DatabricksSuccess_rerouting(result) ==
    [context_silo_a |-> result[1], sources |-> result[2], route_decision |-> "silo_a"]
DatabricksSuccess(result) == [context_silo_a |-> result[1], sources |-> result[2]]
\* a fallback whose diagnostic does not name the failure
DatabricksFallback_unnamed(exc) ==
    [context_silo_a |-> "[MOCK DATA - Databricks Vector Search unavailable]",
     sources |-> <<"[MOCK/FALLBACK] Databricks data">>,
     errors |-> <<"Databricks agent error (using mock fallback)">>]
DatabricksFallback(exc) ==
    [context_silo_a |-> DATABRICKS_MOCK_CONTEXT,
     sources |-> <<"[MOCK/FALLBACK] Databricks data">>,
     errors |-> <<"Databricks agent error (using mock fallback): " \o exc>>]

(***************************************************************************)
(* nodes/azure_agent.py                                                    *)
(***************************************************************************)
\* abbreviated: the first line of the mock text
AZURE_MOCK_CONTEXT == "[MOCK DATA - Azure AI Search unavailable]"
AZURE_MAX_RETRIES == 3
\* RETRY_BACKOFF_BASE = 1.5, as the fraction <<numerator, denominator>>
AZURE_RETRY_BACKOFF_BASE == <<3, 2>>

\* a search result is a dict that may lack any of title, chunk, parent_id
AzureTitle(r)  == IF "title" \in DOMAIN r THEN r["title"] ELSE "Unknown Patent"
AzureChunk(r)  == IF "chunk" \in DOMAIN r THEN r["chunk"] ELSE ""
AzureParent(r) == IF "parent_id" \in DOMAIN r THEN r["parent_id"] ELSE "azure"

\* a result whose references come in the reverse of the rows' order
AzureResult_references_reversed(results) ==
    IF results = <<>> THEN << "No relevant patent documents found.", <<>> >>
    ELSE << JoinParts([i \in 1..Len(results) |->
                "[" \o AzureTitle(results[i]) \o "]: " \o AzureChunk(results[i])]),
            [i \in 1..Len(results) |->
                "Azure/" \o AzureParent(results[Len(results) + 1 - i]) \o "/"
                         \o AzureTitle(results[Len(results) + 1 - i])] >>

\* what one successful embed_query + search attempt returns: <<context, sources>>
AzureResult(results) ==
    IF results = <<>> THEN << "No relevant patent documents found.", <<>> >>
    ELSE << JoinParts([i \in 1..Len(results) |->
                "[" \o AzureTitle(results[i]) \o "]: " \o AzureChunk(results[i])]),
            [i \in 1..Len(results) |->
                "Azure/" \o AzureParent(results[i]) \o "/" \o AzureTitle(results[i])] >>

\* the returns of azure_agent_node
\* the empty-query return of Silo-B clearing the answer as well
AzureEmptyQuery_clearing_answer ==
    [context_silo_b |-> "", synthesized_answer |-> "",
     errors |-> <<"Azure agent received empty query">>]
AzureEmptyQuery ==
    [context_silo_b |-> "", errors |-> <<"Azure agent received empty query">>]
\* the mock return of Silo-B reporting itself as an error
AzureMock_reporting ==
    [context_silo_b |-> AZURE_MOCK_CONTEXT,
     sources |-> <<"[MOCK] Azure/US-2024-0112233/Neural Architecture",
                   "[MOCK] Azure/EP-3987654/Distributed Feature Engineering">>,
     errors |-> <<"Azure agent not configured">>]
AzureMock ==
    [context_silo_b |-> AZURE_MOCK_CONTEXT,
     sources |-> <<"[MOCK] Azure/US-2024-0112233/Neural Architecture",
                   "[MOCK] Azure/EP-3987654/Distributed Feature Engineering">>]
AzureSuccess(result) == [context_silo_b |-> result[1], sources |-> result[2]]
\* a fallback return that leaves the context out
AzureFallback_without_context(exc) ==
    [sources |-> <<"[MOCK/FALLBACK] Azure data">>,
     errors |-> <<"Azure agent error (using mock fallback): " \o exc>>]
AzureFallback(exc) ==
    [context_silo_b |-> AZURE_MOCK_CONTEXT,
     sources |-> <<"[MOCK/FALLBACK] Azure data">>,
     errors |-> <<"Azure agent error (using mock fallback): " \o exc>>]

(***************************************************************************)
(* nodes/synthesizer.py                                                    *)
(***************************************************************************)
\* _build_synthesis_prompt
build_synthesis_prompt(query, context_a, context_b) ==
    "## User Query\n" \o Str(query) \o "\n" \o "\n"
    \o (IF context_a # ""
        THEN "## Silo A - Internal Engineering Documentation\n" \o context_a \o "\n"
        ELSE "## Silo A - Internal Engineering Documentation\n*No data available.*\n")
    \o "\n"
    \o (IF context_b # ""
        THEN "## Silo B - External Patents & Research\n" \o context_b \o "\n"
        ELSE "## Silo B - External Patents & Research\n*No data available.*\n")
    \o "\n"
    \o "## Instructions\nSynthesize the above into a comprehensive answer."

\* synthesizer_node: the partial update of the Synthesizer, llm being what
\* _get_llm() and llm.invoke do (consulted only when a context is non-empty)
\* synthesizer_node reporting nothing when both contexts are empty
synthesizer_node_silent_when_empty(state, llm) ==
    LET a == Get(state, "context_silo_a", "")
        b == Get(state, "context_silo_b", "")
    IN  IF a = "" /\ b = ""
        THEN [synthesized_answer |-> "No relevant information found in either data silo."]
        ELSE [synthesized_answer |-> "## Query: " \o Str(Get(state, "query", <<>>)) \o "\n\n"]

\* synthesizer_node writing both sections whatever the contexts hold
synthesizer_node_all_sections(state, llm) ==
    LET a == Get(state, "context_silo_a", "")
        b == Get(state, "context_silo_b", "")
    IN  IF a = "" /\ b = ""
        THEN [synthesized_answer |-> "No relevant information found in either data silo.",
              errors |-> <<"Synthesizer: both silos returned empty context">>]
        ELSE [synthesized_answer |-> "## Query: " \o Str(Get(state, "query", <<>>)) \o "\n\n"
                \o "### From Engineering Docs (Silo A)\n" \o a \o "\n\n"
                \o "### From Patents (Silo B)\n" \o b \o "\n\n"]

synthesizer_node(state, llm) ==
    LET query     == Get(state, "query", <<>>)
        context_a == Get(state, "context_silo_a", "")
        context_b == Get(state, "context_silo_b", "")
    IN  IF context_a = "" /\ context_b = ""
        THEN [synthesized_answer |-> "No relevant information found in either data silo.",
              errors |-> <<"Synthesizer: both silos returned empty context">>]
        ELSE IF llm.kind = "none"
        THEN [synthesized_answer |->
                "## Query: " \o Str(query) \o "\n\n"
                \o (IF context_a # "" THEN "### From Engineering Docs (Silo A)\n" \o context_a \o "\n\n" ELSE "")
                \o (IF context_b # "" THEN "### From Patents (Silo B)\n" \o context_b \o "\n\n" ELSE "")]
        ELSE IF llm.kind = "content"
        THEN [synthesized_answer |-> llm.content]
        ELSE [synthesized_answer |->
                "[Synthesis error - raw data follows]\n\n"
                \o (IF context_a # "" THEN "### Silo A\n" \o context_a \o "\n\n" ELSE "")
                \o (IF context_b # "" THEN "### Silo B\n" \o context_b \o "\n\n" ELSE ""),
              errors |-> <<"Synthesizer error: " \o llm.exc>>]

(***************************************************************************)
(* The state of one invocation                                             *)
(***************************************************************************)
VARIABLES
    settings,        \* config.py: the three "configured" properties of the settings singleton
    llm_client_ok,   \* whether AzureChatOpenAI(...) constructs with these settings (else it raises)
    request,         \* the request body ({"query": ...} or {}), or the input of a direct invocation
    http,            \* server.py: where the /invoke handler is ("direct": the graph is invoked without it)
    pc,              \* the node the graph runs next, "END", or "raised" when an exception left the graph
    state,           \* the AgentState of the invocation
    agent,           \* the retry loop of the running retrieval agent
    log,             \* what happened so far: nodes entered and left, clients built, backend calls, sleeps
    response,        \* the response of /invoke
    pii,             \* the functions of nodes/pii_filter.py applied to one text
    peer             \* server.py: a second request of the same process, while its handler does not run

vars == <<settings, llm_client_ok, request, http, pc, state, agent, log, response, pii, peer>>

\* server.py, InvokeRequest.query: Field(min_length=1, max_length=2000)
min_length == 1
max_length == 2000

(***************************************************************************)
(* Bounds and the inputs drawn from them                                   *)
(***************************************************************************)
MaxFrags   == 4     \* fragments per text
MaxTextLen == 26    \* characters per text

EmailText  == <<"a", "@", "b", ".", "c", "c">>
PhoneText  == <<"+", "4", "9", " ", "1", "5", "1", " ", "1", "2", "3", "4", " ", "5", "6", "7", "8">>
CardText   == <<"4", "1", "1", "1", "-", "1", "1", "1", "1", "-", "1", "1", "1", "1", "-", "1", "1", "1", "1">>
SsnText    == <<"1", "2", "3", "4", "5", "6", "7", "8", "A", "1", "2", "3">>
IbanText   == <<"D", "E", "8", "9", "3", "7", "0", "4", "0", "0", "4", "4", "0", "5", "3", "2", "0", "1", "3", "0", "0", "0">>
TokenText  == <<"[", "R", "E", "D", "A", "C", "T", "E", "D", "_", "E", "M", "A", "I", "L", "]">>

Fragments == {EmailText, PhoneText, CardText, SsnText, IbanText, TokenText, <<"x">>, <<",">>}

\* the texts made of at most n fragments, MaxTextLen characters at most
RECURSIVE Texts(_)
Texts(n) ==
    IF n = 0 THEN {<<>>}
    ELSE LET shorter == Texts(n - 1)
         IN  shorter \cup {tf \in {t \o f : t \in shorter, f \in Fragments} : Len(tf) <= MaxTextLen}

PiiTexts == Texts(MaxFrags)

\* the queries of the pipeline: empty, clean, with an email address, and with
\* one identity number written twice, the second time followed by a letter
RepeatedSsnText == SsnText \o <<",">> \o SsnText \o <<"x">>
Queries == {<<>>, <<"x">>, EmailText, RepeatedSsnText}

Bodies == {[query |-> q] : q \in Queries}
NoBody == <<>>

\* what the text-generation backend answers to the router
RouterContents ==
    { <<"s", "i", "l", "o", "_", "a">>,
      <<" ", "S", "I", "L", "O", "_", "B", "\n">>,
      <<"b", "o", "t", "h">>,
      <<"s", "i", "l", "o", "_", "c">> }
\* what it answers to the synthesizer
SynthesisContents == {"LLM answer"}
\* the exceptions
LlmErrors     == {"API error"}
ClientErrors  == {"client init failed"}
BackendErrors == {"timeout", "unavailable"}

\* the data_array of a successful query_index: no row, or rows [content, title, source], one cut short
DatabricksResults == {<<>>, << <<"c1", "t1", "s1">>, <<"c2">> >>}
\* the results of a successful search: none, or dicts with title, chunk, parent_id, one lacking keys
AzureResults == {<<>>, << [title |-> "t1", chunk |-> "k1", parent_id |-> "p1"], [chunk |-> "k2"] >>}

(***************************************************************************)
(* The log                                                                 *)
(***************************************************************************)
NoWait == <<0, 1>>
Entry(ev, node, op, text, k) ==
    [ev |-> ev, node |-> node, op |-> op, text |-> text, k |-> k,
     exc |-> "", wait |-> NoWait, n |-> 0,
     wrote |-> {}, errors |-> <<>>, sources |-> <<>>, rows |-> <<>>]
Enter(node)           == Entry("enter", node, "", <<>>, 0)
\* text: the query of the state the node leaves
Exit(node, text)      == Entry("exit", node, "", text, 0)
Raise(node)           == Entry("raise", node, "", <<>>, 0)
Construct(node, op)   == Entry("construct", node, op, <<>>, 0)
Call(node, op, text, k) == Entry("call", node, op, text, k)
Reply(node, text)     == Entry("reply", node, "", text, 0)
\* time.sleep(wait) after the failure of attempt k
Sleep(node, k, wait)  == [Entry("sleep", node, "", <<>>, k) EXCEPT !.wait = wait]
\* attempt k raised exc
Fail(node, exc, k)    == [Entry("fail", node, "", <<>>, k) EXCEPT !.exc = exc]
\* attempt k returned these rows, n of them
Rows(node, rows, k)   == [Entry("rows", node, "", <<>>, k) EXCEPT !.n = Len(rows), !.rows = rows]
\* the node returned `update`: the keys it wrote and what it handed to the
\* reducers of errors and sources; text is the query of the state it leaves
Returned(node, update, text) ==
    [Exit(node, text) EXCEPT !.wrote   = DOMAIN update,
                             !.errors  = Get(update, "errors", <<>>),
                             !.sources = Get(update, "sources", <<>>)]

Idle == [phase |-> "idle", attempt |-> 0]
NoResponse == [status |-> "none"]
PiiOff == [pc |-> "off"]
NoPeer == [http |-> "off"]

(***************************************************************************)
(* server.py: the /invoke handler, and the direct invocation of the graph  *)
(***************************************************************************)
Init ==
    /\ settings \in [azure_openai_configured : BOOLEAN,
                     azure_search_configured : BOOLEAN,
                     databricks_configured   : BOOLEAN]
    /\ llm_client_ok \in BOOLEAN
    /\ \/ http = "received" /\ request \in Bodies \cup {NoBody}
       \/ http = "direct" /\ request \in Bodies
    /\ pc = "START"
    /\ state = <<>>
    /\ agent = Idle
    /\ log = <<>>
    /\ response = NoResponse
    /\ pii = PiiOff
    /\ peer = NoPeer

\* the validation without min_length
Valid_without_min_length(body) ==
    /\ "query" \in DOMAIN body
    /\ Len(body["query"]) <= max_length

\* the validation of InvokeRequest: 422 before the handler body runs
Valid(body) ==
    /\ "query" \in DOMAIN body
    /\ Len(body["query"]) >= min_length
    /\ Len(body["query"]) <= max_length

\* POST /invoke: the request is validated; a valid one starts app_graph.invoke
HttpReceive ==
    /\ http = "received"
    /\ IF Valid(request)
       THEN /\ http' = "invoking"
            /\ state' = InitialState(request["query"])
            /\ pc' = NextNode("START", state')
            /\ UNCHANGED response
       ELSE /\ http' = "done"
            /\ response' = [status |-> "422"]
            /\ UNCHANGED <<state, pc>>
    /\ UNCHANGED <<settings, llm_client_ok, request, agent, log, pii, peer>>

\* app_graph.invoke({"query": q, "messages": []}) without the server
GraphInvoke ==
    /\ http = "direct" /\ pc = "START"
    /\ state' = InitialState(request["query"])
    /\ pc' = NextNode("START", state')
    /\ UNCHANGED <<settings, llm_client_ok, request, http, agent, log, response, pii, peer>>

\* a response built from the defaults of the handler
HttpRespond_from_defaults ==
    /\ http = "invoking" /\ pc = "END"
    /\ http' = "done"
    /\ response' = [status         |-> "200",
                    answer         |-> "No answer generated",
                    sources        |-> <<>>,
                    route_decision |-> "unknown",
                    pii_detected   |-> FALSE,
                    errors         |-> <<>>]
    /\ UNCHANGED <<settings, llm_client_ok, request, pc, state, agent, log, pii, peer>>

\* the handler returns the InvokeResponse built from the final state
HttpRespond ==
    /\ http = "invoking" /\ pc = "END"
    /\ http' = "done"
    /\ response' = [status        |-> "200",
                    answer         |-> Get(state, "synthesized_answer", "No answer generated"),
                    sources        |-> Get(state, "sources", <<>>),
                    route_decision |-> Get(state, "route_decision", "unknown"),
                    pii_detected   |-> Get(state, "pii_detected", FALSE),
                    errors         |-> Get(state, "errors", <<>>)]
    /\ UNCHANGED <<settings, llm_client_ok, request, pc, state, agent, log, pii, peer>>

\* an exception that left the graph becomes HTTPException(500)
HttpFail ==
    /\ http = "invoking" /\ pc = "raised"
    /\ http' = "done"
    /\ response' = [status |-> "500"]
    /\ UNCHANGED <<settings, llm_client_ok, request, pc, state, agent, log, pii, peer>>

(***************************************************************************)
(* graph.py: the nodes run by the compiled graph                           *)
(***************************************************************************)
\* `node` returns `update`: it is merged into the state and the edges choose the next node
NodeReturns(node, update, entries) ==
    /\ state' = Merge(state, update)
    /\ pc' = NextNode(node, state')
    /\ log' = log \o entries \o <<Returned(node, update, Get(state', "query", <<>>))>>
    /\ agent' = Idle

\* an exception leaves `node` and with it app_graph.invoke
NodeRaises(node, entries) ==
    /\ pc' = "raised"
    /\ log' = log \o entries \o <<Raise(node)>>
    /\ UNCHANGED <<state, agent, peer>>

PiiFilter ==
    /\ pc = "pii_filter"
    /\ NodeReturns("pii_filter", pii_filter_node(state), <<Enter("pii_filter")>>)
    /\ UNCHANGED <<settings, llm_client_ok, request, http, response, pii, peer>>

\* Router with a second llm.invoke after a failed one
Router_retrying ==
    /\ pc = "router"
    /\ LET query == Get(state, "query", <<>>)
       IN  IF query = <<>>
           THEN NodeReturns("router", router_node(state, NoLlm), <<Enter("router")>>)
           ELSE IF ~settings.azure_openai_configured
           THEN NodeReturns("router", router_node(state, NoLlm), <<Enter("router")>>)
           ELSE IF ~llm_client_ok
           THEN NodeRaises("router", <<Enter("router"), Construct("router", "AzureChatOpenAI")>>)
           ELSE \/ \E exc \in LlmErrors :
                     NodeReturns("router", router_node(state, LlmRaises(exc)),
                                 <<Enter("router"), Construct("router", "AzureChatOpenAI"),
                                   Call("router", "generate", query, 1),
                                   Call("router", "generate", query, 2)>>)
                \/ \E content \in RouterContents :
                     NodeReturns("router", router_node(state, LlmReturns(content)),
                                 <<Enter("router"), Construct("router", "AzureChatOpenAI"),
                                   Call("router", "generate", query, 1), Reply("router", content)>>)
    /\ UNCHANGED <<settings, llm_client_ok, request, http, response, pii, peer>>

Router ==
    /\ pc = "router"
    /\ LET query == Get(state, "query", <<>>)
       IN  IF query = <<>>
           THEN NodeReturns("router", router_node(state, NoLlm), <<Enter("router")>>)
           ELSE IF ~settings.azure_openai_configured
           THEN NodeReturns("router", router_node(state, NoLlm), <<Enter("router")>>)
           ELSE IF ~llm_client_ok
           THEN NodeRaises("router", <<Enter("router"), Construct("router", "AzureChatOpenAI")>>)
           ELSE \/ \E exc \in LlmErrors :
                     NodeReturns("router", router_node(state, LlmRaises(exc)),
                                 <<Enter("router"), Construct("router", "AzureChatOpenAI"),
                                   Call("router", "generate", query, 1)>>)
                \/ \E content \in RouterContents :
                     NodeReturns("router", router_node(state, LlmReturns(content)),
                                 <<Enter("router"), Construct("router", "AzureChatOpenAI"),
                                   Call("router", "generate", query, 1), Reply("router", content)>>)
    /\ UNCHANGED <<settings, llm_client_ok, request, http, response, pii, peer>>

\* databricks_agent_node up to the first query_index attempt
DatabricksEnter ==
    /\ pc = "databricks_agent" /\ agent.phase = "idle"
    /\ LET query == Get(state, "query", <<>>)
           node  == "databricks_agent"
       IN  IF query = <<>>
           THEN NodeReturns(node, DatabricksEmptyQuery, <<Enter(node)>>)
           ELSE IF ~settings.databricks_configured
           THEN NodeReturns(node, DatabricksMock, <<Enter(node)>>)
           ELSE \/ \E exc \in ClientErrors :
                     NodeReturns(node, DatabricksFallback(exc),
                                 <<Enter(node), Construct(node, "WorkspaceClient"),
                                   Fail(node, exc, 0)>>)
                \/ /\ agent' = [phase |-> "attempt", attempt |-> 1]
                   /\ log' = log \o <<Enter(node), Construct(node, "WorkspaceClient")>>
                   /\ UNCHANGED <<state, pc>>
    /\ UNCHANGED <<settings, llm_client_ok, request, http, response, pii, peer>>

\* one pass of the retry loop of _query_databricks_vector_search
DatabricksAttempt ==
    /\ pc = "databricks_agent" /\ agent.phase = "attempt"
    /\ LET query == Get(state, "query", <<>>)
           node  == "databricks_agent"
           call  == Call(node, "query_index", query, agent.attempt)
       IN  \/ \E rows \in DatabricksResults :
                 NodeReturns(node, DatabricksSuccess(DatabricksResult(rows)),
                             <<call, Rows(node, rows, agent.attempt)>>)
           \/ \E exc \in BackendErrors :
                 IF agent.attempt < DATABRICKS_MAX_RETRIES
                 THEN /\ agent' = [phase |-> "sleep", attempt |-> agent.attempt]
                      /\ log' = log \o <<call, Fail(node, exc, agent.attempt)>>
                      /\ UNCHANGED <<state, pc>>
                 ELSE NodeReturns(node, DatabricksFallback(exc),
                                  <<call, Fail(node, exc, agent.attempt)>>)
    /\ UNCHANGED <<settings, llm_client_ok, request, http, response, pii, peer>>

\* time.sleep(RETRY_BACKOFF_BASE ** attempt) returns
DatabricksSleep ==
    /\ pc = "databricks_agent" /\ agent.phase = "sleep"
    /\ agent' = [phase |-> "attempt", attempt |-> agent.attempt + 1]
    /\ log' = log \o <<Sleep("databricks_agent", agent.attempt,
                               Power(DATABRICKS_RETRY_BACKOFF_BASE, agent.attempt))>>
    /\ UNCHANGED <<settings, llm_client_ok, request, http, pc, state, response, pii, peer>>

\* AzureEnter building its clients before it looks at the configuration
AzureEnter_building_clients_first ==
    /\ pc = "azure_agent" /\ agent.phase = "idle"
    /\ LET query == Get(state, "query", <<>>)
           node  == "azure_agent"
           built == <<Enter(node), Construct(node, "AzureOpenAIEmbeddings"),
                      Construct(node, "SearchClient")>>
       IN  IF query = <<>>
           THEN NodeReturns(node, AzureEmptyQuery, <<Enter(node)>>)
           ELSE IF ~settings.azure_search_configured
           THEN NodeReturns(node, AzureMock, built)
           ELSE \/ \E exc \in ClientErrors :
                     NodeReturns(node, AzureFallback(exc), built \o <<Fail(node, exc, 0)>>)
                \/ /\ agent' = [phase |-> "attempt", attempt |-> 1]
                   /\ log' = log \o built
                   /\ UNCHANGED <<state, pc>>
    /\ UNCHANGED <<settings, llm_client_ok, request, http, response, pii, peer>>

\* azure_agent_node up to the first attempt
AzureEnter ==
    /\ pc = "azure_agent" /\ agent.phase = "idle"
    /\ LET query == Get(state, "query", <<>>)
           node  == "azure_agent"
       IN  IF query = <<>>
           THEN NodeReturns(node, AzureEmptyQuery, <<Enter(node)>>)
           ELSE IF ~settings.azure_search_configured
           THEN NodeReturns(node, AzureMock, <<Enter(node)>>)
           ELSE \/ \E exc \in ClientErrors :
                     NodeReturns(node, AzureFallback(exc),
                                 <<Enter(node), Construct(node, "AzureOpenAIEmbeddings"),
                                   Fail(node, exc, 0)>>)
                \/ \E exc \in ClientErrors :
                     NodeReturns(node, AzureFallback(exc),
                                 <<Enter(node), Construct(node, "AzureOpenAIEmbeddings"),
                                   Construct(node, "SearchClient"), Fail(node, exc, 0)>>)
                \/ /\ agent' = [phase |-> "attempt", attempt |-> 1]
                   /\ log' = log \o <<Enter(node), Construct(node, "AzureOpenAIEmbeddings"),
                                      Construct(node, "SearchClient")>>
                   /\ UNCHANGED <<state, pc>>
    /\ UNCHANGED <<settings, llm_client_ok, request, http, response, pii, peer>>

\* one pass of the retry loop of _query_azure_search: embed_query, then search
AzureAttempt ==
    /\ pc = "azure_agent" /\ agent.phase = "attempt"
    /\ LET query  == Get(state, "query", <<>>)
           node   == "azure_agent"
           embed  == Call(node, "embed_query", query, agent.attempt)
           find   == Call(node, "search", query, agent.attempt)
           Failed(exc, calls) ==
               IF agent.attempt < AZURE_MAX_RETRIES
               THEN /\ agent' = [phase |-> "sleep", attempt |-> agent.attempt]
                    /\ log' = log \o calls \o <<Fail(node, exc, agent.attempt)>>
                    /\ UNCHANGED <<state, pc>>
               ELSE NodeReturns(node, AzureFallback(exc),
                                calls \o <<Fail(node, exc, agent.attempt)>>)
       IN  \/ \E results \in AzureResults :
                 NodeReturns(node, AzureSuccess(AzureResult(results)),
                             <<embed, find, Rows(node, results, agent.attempt)>>)
           \/ \E exc \in BackendErrors : Failed(exc, <<embed>>)
           \/ \E exc \in BackendErrors : Failed(exc, <<embed, find>>)
    /\ UNCHANGED <<settings, llm_client_ok, request, http, response, pii, peer>>

\* time.sleep(RETRY_BACKOFF_BASE ** attempt) returns
AzureSleep ==
    /\ pc = "azure_agent" /\ agent.phase = "sleep"
    /\ agent' = [phase |-> "attempt", attempt |-> agent.attempt + 1]
    /\ log' = log \o <<Sleep("azure_agent", agent.attempt,
                               Power(AZURE_RETRY_BACKOFF_BASE, agent.attempt))>>
    /\ UNCHANGED <<settings, llm_client_ok, request, http, pc, state, response, pii, peer>>

\* the Synthesizer calling the backend a second time after a failure
Synthesizer_retrying ==
    /\ pc = "synthesizer"
    /\ LET query == Get(state, "query", <<>>)
           node  == "synthesizer"
       IN  IF Get(state, "context_silo_a", "") = "" /\ Get(state, "context_silo_b", "") = ""
           THEN NodeReturns(node, synthesizer_node(state, NoLlm), <<Enter(node)>>)
           ELSE IF ~settings.azure_openai_configured
           THEN NodeReturns(node, synthesizer_node(state, NoLlm), <<Enter(node)>>)
           ELSE IF ~llm_client_ok
           THEN NodeRaises(node, <<Enter(node), Construct(node, "AzureChatOpenAI")>>)
           ELSE \/ \E exc \in LlmErrors :
                     NodeReturns(node, synthesizer_node(state, LlmRaises(exc)),
                                 <<Enter(node), Construct(node, "AzureChatOpenAI"),
                                   Call(node, "generate", query, 1), Fail(node, exc, 1),
                                   Call(node, "generate", query, 2), Fail(node, exc, 2)>>)
                \/ \E content \in SynthesisContents :
                     NodeReturns(node, synthesizer_node(state, LlmReturns(content)),
                                 <<Enter(node), Construct(node, "AzureChatOpenAI"),
                                   Call(node, "generate", query, 1)>>)
    /\ UNCHANGED <<settings, llm_client_ok, request, http, response, pii, peer>>

Synthesizer ==
    /\ pc = "synthesizer"
    /\ LET query == Get(state, "query", <<>>)
           node  == "synthesizer"
       IN  IF Get(state, "context_silo_a", "") = "" /\ Get(state, "context_silo_b", "") = ""
           THEN NodeReturns(node, synthesizer_node(state, NoLlm), <<Enter(node)>>)
           ELSE IF ~settings.azure_openai_configured
           THEN NodeReturns(node, synthesizer_node(state, NoLlm), <<Enter(node)>>)
           ELSE IF ~llm_client_ok
           THEN NodeRaises(node, <<Enter(node), Construct(node, "AzureChatOpenAI")>>)
           ELSE \/ \E exc \in LlmErrors :
                     NodeReturns(node, synthesizer_node(state, LlmRaises(exc)),
                                 <<Enter(node), Construct(node, "AzureChatOpenAI"),
                                   Call(node, "generate", query, 1), Fail(node, exc, 1)>>)
                \/ \E content \in SynthesisContents :
                     NodeReturns(node, synthesizer_node(state, LlmReturns(content)),
                                 <<Enter(node), Construct(node, "AzureChatOpenAI"),
                                   Call(node, "generate", query, 1)>>)
    /\ UNCHANGED <<settings, llm_client_ok, request, http, response, pii, peer>>

Next ==
    \/ HttpReceive \/ GraphInvoke \/ HttpRespond \/ HttpFail
    \/ PiiFilter \/ Router
    \/ DatabricksEnter \/ DatabricksAttempt \/ DatabricksSleep
    \/ AzureEnter \/ AzureAttempt \/ AzureSleep
    \/ Synthesizer

Spec == Init /\ [][Next]_vars

\* every step but the PII filter's
AfterFilter ==
    \/ HttpReceive \/ GraphInvoke \/ HttpRespond \/ HttpFail
    \/ Router
    \/ DatabricksEnter \/ DatabricksAttempt \/ DatabricksSleep
    \/ AzureEnter \/ AzureAttempt \/ AzureSleep
    \/ Synthesizer

\* every call of a backend returns or fails, every sleep ends, every node that
\* can run does.  The last conjunct is WF_vars(PiiFilter) written out, the
\* filter being enabled exactly when pc = "pii_filter".
FairSpec ==
    /\ Spec
    /\ WF_vars(AfterFilter)
    /\ ([]<>(pc # "pii_filter") \/ []<><<PiiFilter>>_vars)

(***************************************************************************)
(* The functions of nodes/pii_filter.py applied to one text, as the unit   *)
(* tests apply them                                                        *)
(***************************************************************************)
PatternNames == {Str(PII_PATTERNS[k].name) : k \in 1..Len(PII_PATTERNS)}
PatternOf(name) ==
    PII_PATTERNS[CHOOSE k \in 1..Len(PII_PATTERNS) : Str(PII_PATTERNS[k].name) = name].pattern

\* pattern.search(text).group(0) for every category: its leftmost match in text, <<>> when none
Found(text) ==
    [name \in PatternNames |->
        LET m == search(PatternOf(name), text)
        IN  IF m[1] = 0 THEN <<>> ELSE SubSeq(text, m[1], m[2] - 1)]

PiiInit ==
    /\ pii \in {[pc |-> "input", text |-> t, found |-> <<>>, detected |-> <<>>,
                 sanitized |-> <<>>, resanitized |-> <<>>, redetected |-> <<>>,
                 update |-> <<>>, after |-> <<>>, update_again |-> <<>>] : t \in PiiTexts}
    /\ settings = [azure_openai_configured |-> FALSE,
                   azure_search_configured |-> FALSE,
                   databricks_configured   |-> FALSE]
    /\ llm_client_ok = TRUE
    /\ request = NoBody
    /\ http = "off"
    /\ pc = "off"
    /\ state = <<>>
    /\ agent = Idle
    /\ log = <<>>
    /\ response = NoResponse
    /\ peer = NoPeer

\* detect_pii(text), beside what each pattern finds in the text
PiiDetect ==
    /\ pii.pc = "input"
    /\ pii' = [pii EXCEPT !.pc = "detected",
                          !.found = Found(pii.text),
                          !.detected = detect_pii(pii.text)]
    /\ UNCHANGED <<settings, llm_client_ok, request, http, pc, state, agent, log, response, peer>>

\* sanitize_query(text)
PiiSanitize ==
    /\ pii.pc = "detected"
    /\ pii' = [pii EXCEPT !.pc = "sanitized", !.sanitized = sanitize_query(pii.text)]
    /\ UNCHANGED <<settings, llm_client_ok, request, http, pc, state, agent, log, response, peer>>

\* sanitize_query and detect_pii on the sanitized text
PiiResanitize ==
    /\ pii.pc = "sanitized"
    /\ pii' = [pii EXCEPT !.pc = "resanitized",
                          !.resanitized = sanitize_query(pii.sanitized),
                          !.redetected = detect_pii(pii.sanitized)]
    /\ UNCHANGED <<settings, llm_client_ok, request, http, pc, state, agent, log, response, peer>>

\* pii_filter_node on a state whose query is the text
PiiNode ==
    /\ pii.pc = "resanitized"
    /\ LET update == pii_filter_node(InitialState(pii.text))
       IN  pii' = [pii EXCEPT !.pc = "filtered",
                              !.update = update,
                              !.after = Merge(InitialState(pii.text), update)]
    /\ UNCHANGED <<settings, llm_client_ok, request, http, pc, state, agent, log, response, peer>>

\* pii_filter_node on the state it left
PiiNodeAgain ==
    /\ pii.pc = "filtered"
    /\ pii' = [pii EXCEPT !.pc = "refiltered", !.update_again = pii_filter_node(pii.after)]
    /\ UNCHANGED <<settings, llm_client_ok, request, http, pc, state, agent, log, response, peer>>

PiiNext == PiiDetect \/ PiiSanitize \/ PiiResanitize \/ PiiNode \/ PiiNodeAgain

SpecPii == PiiInit /\ [][PiiNext]_vars

(***************************************************************************)
(* synthesizer_node called on a state of its own, as tests/test_nodes.py   *)
(* does: the empty_state of tests/conftest.py with a query and contexts    *)
(***************************************************************************)
empty_state ==
    [messages |-> <<>>, query |-> <<>>, route_decision |-> "",
     context_silo_a |-> "", context_silo_b |-> "", synthesized_answer |-> "",
     sources |-> <<>>, errors |-> <<>>, pii_detected |-> FALSE]

ContextsA == {"", "Internal doc about gears", DATABRICKS_MOCK_CONTEXT}
ContextsB == {"", "Patent about transmissions", AZURE_MOCK_CONTEXT}

SynthInit ==
    /\ settings \in [azure_openai_configured : BOOLEAN,
                     azure_search_configured : {FALSE},
                     databricks_configured   : {FALSE}]
    /\ llm_client_ok \in BOOLEAN
    /\ request = NoBody
    /\ http = "unit"
    /\ pc = "synthesizer"
    /\ state \in {[empty_state EXCEPT !.query = q, !.context_silo_a = a, !.context_silo_b = b] :
                      q \in Queries, a \in ContextsA, b \in ContextsB}
    /\ agent = Idle
    /\ log = <<>>
    /\ response = NoResponse
    /\ pii = PiiOff
    /\ peer = NoPeer

SynthNext == Synthesizer

SpecSynth == SynthInit /\ [][SynthNext]_vars

(***************************************************************************)
(* server.py: two requests received by one server process. invoke_graph is *)
(* a coroutine (async def) that awaits nothing: app_graph.invoke is a      *)
(* plain call and the agents wait with time.sleep, so the event loop's     *)
(* thread stays in the handler from its first statement to its return.     *)
(* The variables of the invocation are the request whose handler has the   *)
(* thread; peer holds the other request.                                   *)
(***************************************************************************)
Own ==
    [request |-> request, http |-> http, pc |-> pc, state |-> state,
     agent |-> agent, log |-> log, response |-> response]

Received(body) ==
    [request |-> body, http |-> "received", pc |-> "START", state |-> <<>>,
     agent |-> Idle, log |-> <<>>, response |-> NoResponse]

ConcBodies == {[query |-> <<"x">>], [query |-> EmailText]}

\* one backend configured at a time; the text-generation client cannot be built
ConcSettings ==
    {[azure_openai_configured |-> o, azure_search_configured |-> s, databricks_configured |-> d] :
        <<o, s, d>> \in {<<FALSE, FALSE, TRUE>>, <<FALSE, TRUE, FALSE>>, <<TRUE, FALSE, FALSE>>}}

ConcInit ==
    /\ settings \in ConcSettings
    /\ llm_client_ok = FALSE
    /\ request \in ConcBodies
    /\ http = "received"
    /\ pc = "START"
    /\ state = <<>>
    /\ agent = Idle
    /\ log = <<>>
    /\ response = NoResponse
    /\ pii = PiiOff
    /\ peer \in {Received(body) : body \in ConcBodies}

\* a hand-over in which the errors list is one object of the process
Switch_sharing_errors ==
    /\ peer.http # "off"
    /\ http # "invoking"
    /\ request' = peer.request
    /\ http' = peer.http
    /\ pc' = peer.pc
    /\ state' = IF DOMAIN state # {} /\ DOMAIN peer.state # {}
                THEN [peer.state EXCEPT !["errors"] = state["errors"] \o @]
                ELSE peer.state
    /\ agent' = peer.agent
    /\ log' = peer.log
    /\ response' = peer.response
    /\ peer' = Own
    /\ UNCHANGED <<settings, llm_client_ok, pii>>

\* the event loop gives its thread to the other request: only between handlers
Switch ==
    /\ peer.http # "off"
    /\ http # "invoking"
    /\ request' = peer.request
    /\ http' = peer.http
    /\ pc' = peer.pc
    /\ state' = peer.state
    /\ agent' = peer.agent
    /\ log' = peer.log
    /\ response' = peer.response
    /\ peer' = Own
    /\ UNCHANGED <<settings, llm_client_ok, pii>>

ConcNext ==
    \/ HttpReceive \/ HttpRespond \/ HttpFail
    \/ PiiFilter \/ Router
    \/ DatabricksEnter \/ DatabricksAttempt \/ DatabricksSleep
    \/ AzureEnter \/ AzureAttempt \/ AzureSleep
    \/ Synthesizer
    \/ Switch

SpecConc == ConcInit /\ [][ConcNext]_vars

(***************************************************************************)
(* What the log tells                                                      *)
(***************************************************************************)
IsPrefix(a, b) == Len(a) <= Len(b) /\ SubSeq(b, 1, Len(a)) = a

\* the nodes in the order they were entered
EnteredOf(entries) == SelectSeq(entries, LAMBDA e : e.ev = "enter")
Stages == [i \in 1..Len(EnteredOf(log)) |-> EnteredOf(log)[i].node]

HasExited(node) == \E i \in 1..Len(log) : log[i].ev = "exit" /\ log[i].node = node

\* the stages a routing decision implies
StagesOf(decision) ==
    IF decision = "silo_a" THEN <<"pii_filter", "router", "databricks_agent", "synthesizer">>
    ELSE IF decision = "silo_b" THEN <<"pii_filter", "router", "azure_agent", "synthesizer">>
    ELSE <<"pii_filter", "router", "databricks_agent", "azure_agent", "synthesizer">>

(***************************************************************************)
(* C1: the stages run are those the routing decision implies, in that      *)
(* order and once each: the stages entered are always a prefix of the      *)
(* sequence of the decision and the whole of it at the end; and nothing of *)
(* Silo-B (its entry, a client, an embedding, a search) precedes anything  *)
(* of Silo-A (its attempts, its sleeps, its return).                       *)
(***************************************************************************)
C1_StagesFollowRoute ==
    /\ IF "route_decision" \in DOMAIN state
       THEN /\ IsPrefix(Stages, StagesOf(state["route_decision"]))
            /\ pc = "END" => Stages = StagesOf(state["route_decision"])
       ELSE IsPrefix(Stages, <<"pii_filter", "router">>)
    /\ \A i, j \in 1..Len(log) :
          log[i].node = "databricks_agent" /\ log[j].node = "azure_agent" => i < j
    /\ (\E j \in 1..Len(log) : log[j].node = "azure_agent")
          /\ (\E i \in 1..Len(log) : log[i].node = "databricks_agent")
       => HasExited("databricks_agent")

\* both silos ran, Silo-A after a failed attempt and a sleep, Silo-B with a search
C1_Witness ==
    /\ pc = "END"
    /\ state["route_decision"] = "both"
    /\ \E i \in 1..Len(log) : log[i].ev = "sleep" /\ log[i].node = "databricks_agent"
    /\ \E j \in 1..Len(log) : log[j].ev = "call" /\ log[j].node = "azure_agent" /\ log[j].op = "search"

C3_CallsCarryFilteredQuery ==
    \A i \in 1..Len(log) :
        log[i].ev = "call" =>
            /\ \E j \in 1..(i - 1) :
                  /\ log[j].ev = "exit" /\ log[j].node = "pii_filter"
                  /\ log[i].text = log[j].text
            /\ log[i].text = state["query"]
            /\ Get(state, "pii_detected", FALSE) => log[i].text # request["query"]

\* all four backends called with a redacted query
C3_Witness ==
    /\ Get(state, "pii_detected", FALSE)
    /\ \A node \in {"router", "databricks_agent", "azure_agent", "synthesizer"} :
          \E i \in 1..Len(log) :
              /\ log[i].ev = "call" /\ log[i].node = node
              /\ log[i].text # request["query"]

(***************************************************************************)
(* What the unit harness of the PII functions tells                        *)
(***************************************************************************)
Filtered == pii.pc \in {"filtered", "refiltered"}
Sanitized == pii.pc \in {"sanitized", "resanitized", "filtered", "refiltered"}
Clean == \A name \in PatternNames : pii.found[name] = <<>>
Listed(name) == \E i \in 1..Len(pii.detected) : pii.detected[i] = name

(***************************************************************************)
(* C4: for every query in which one of the five patterns has a match,      *)
(* pii_filter_node sets pii_detected, the category is in the detected      *)
(* list, and the substring the pattern matched does not occur in the query *)
(* the node writes to the state.                                           *)
(***************************************************************************)
C4_MatchedPiiAbsent ==
    Filtered =>
        \A name \in PatternNames :
            pii.found[name] # <<>> =>
                /\ pii.update["pii_detected"] = TRUE
                /\ Listed(name)
                /\ ~OccursIn(pii.found[name], pii.after["query"])

(***************************************************************************)
(* C5: for every query no pattern matches, the empty one included,         *)
(* pii_filter_node returns pii_detected = FALSE in an update with neither  *)
(* a query nor an errors key, so the query and the errors of the state     *)
(* stay as they were.                                                      *)
(***************************************************************************)
C5_CleanQueryUntouched ==
    Filtered /\ Clean =>
        /\ pii.update["pii_detected"] = FALSE
        /\ "query" \notin DOMAIN pii.update
        /\ "errors" \notin DOMAIN pii.update
        /\ pii.after["query"] = pii.text
        /\ pii.after["errors"] = InitialState(pii.text)["errors"]

\* a clean query that is not empty went through the node
C5_Witness == Filtered /\ Clean /\ pii.text # <<>> /\ pii.after["pii_detected"] = FALSE

(***************************************************************************)
(* C6: sanitizing a sanitized query changes nothing and detects nothing:   *)
(* sanitize_query(sanitize_query(q)) = sanitize_query(q), no pattern       *)
(* matches sanitize_query(q), and the node run on its own output reports   *)
(* no PII and writes no query.                                             *)
(***************************************************************************)
C6_SanitizeIdempotent ==
    /\ pii.pc \in {"resanitized", "filtered", "refiltered"} =>
          /\ pii.resanitized = pii.sanitized
          /\ pii.redetected = <<>>
    /\ pii.pc = "refiltered" => pii.update_again = [pii_detected |-> FALSE]

\* the node ran on its own output, in which it had redacted something
C6_Witness ==
    /\ pii.pc = "refiltered"
    /\ pii.sanitized # pii.text
    /\ pii.after["query"] = pii.sanitized
    /\ OccursIn(TokenText, pii.sanitized)

(***************************************************************************)
(* C7: sanitization applies the categories in the lexicographic order of   *)
(* their names (credit_card, email, german_ssn, iban_de,                   *)
(* phone_international): the sanitized text is the one that order gives,   *)
(* the earlier category's token standing where two patterns overlap.       *)
(***************************************************************************)
\* the order of str: "_" sorts before the lower-case letters
CharRank(c) == IF c = "_" THEN 0 ELSE IndexOf(LowerSeq, c)
RECURSIVE LexLess(_, _)
LexLess(a, b) ==
    IF b = <<>> THEN FALSE
    ELSE IF a = <<>> THEN TRUE
    ELSE IF Head(a) # Head(b) THEN CharRank(Head(a)) < CharRank(Head(b))
    ELSE LexLess(Tail(a), Tail(b))
SortedByName(patterns) ==
    LET n == Len(patterns)
        rank(i) == 1 + Cardinality({j \in 1..n : LexLess(patterns[j].name, patterns[i].name)})
    IN  [r \in 1..n |-> patterns[CHOOSE i \in 1..n : rank(i) = r]]

C7_LexicographicOrder ==
    Sanitized => pii.sanitized = SanitizeWith(SortedByName(PII_PATTERNS), pii.text)

(***************************************************************************)
(* What the log tells of the router                                        *)
(***************************************************************************)
RouterCalled == \E i \in 1..Len(log) : log[i].ev = "call" /\ log[i].node = "router"
RouterReplied(content) ==
    \E i \in 1..Len(log) : log[i].ev = "reply" /\ log[i].node = "router" /\ log[i].text = content
RouterGotReply == \E content \in RouterContents : RouterReplied(content)

\* the answers of the text-generation backend, by what they say
SaysSiloA == <<"s", "i", "l", "o", "_", "a">>
SaysSiloB == <<" ", "S", "I", "L", "O", "_", "B", "\n">>
SaysBoth  == <<"b", "o", "t", "h">>
SaysSiloC == <<"s", "i", "l", "o", "_", "c">>

(***************************************************************************)
(* C8: router_node yields route_decision = "both" when the query is empty, *)
(* when the text-generation backend is not configured, when the            *)
(* classification call raises, and when the answer, trimmed and            *)
(* lower-cased, is none of silo_a, silo_b, both: each case on its own.     *)
(***************************************************************************)
C8_RouterDefaultsToBoth ==
    HasExited("router") =>
        /\ state["query"] = <<>> => state["route_decision"] = "both"
        /\ ~settings.azure_openai_configured => state["route_decision"] = "both"
        /\ RouterCalled /\ ~RouterGotReply => state["route_decision"] = "both"
        /\ RouterReplied(SaysSiloC) => state["route_decision"] = "both"

\* the backend answered with a word that is no route, and the route is both
C8_Witness ==
    /\ HasExited("router")
    /\ state["query"] # <<>> /\ settings.azure_openai_configured
    /\ RouterReplied(SaysSiloC)
    /\ state["route_decision"] = "both"
    /\ state["errors"] = <<>>

(***************************************************************************)
(* C9: for a non-empty query and a configured backend whose call succeeds, *)
(* the route is the answer trimmed and lower-cased when that is silo_a or  *)
(* silo_b, and both for every other answer, "both" included.               *)
(***************************************************************************)
C9_RouterMapsAnswer ==
    HasExited("router") =>
        /\ RouterReplied(SaysSiloA) => state["route_decision"] = "silo_a"
        /\ RouterReplied(SaysSiloB) => state["route_decision"] = "silo_b"
        /\ RouterReplied(SaysBoth)  => state["route_decision"] = "both"
        /\ RouterReplied(SaysSiloC) => state["route_decision"] = "both"
        /\ RouterGotReply => state["query"] # <<>> /\ settings.azure_openai_configured

\* an answer in capitals with whitespace around it gave the patents-only route
C9_Witness ==
    /\ HasExited("router")
    /\ RouterReplied(SaysSiloB)
    /\ state["route_decision"] = "silo_b"
    /\ pc = "azure_agent"

(***************************************************************************)
(* C10: once the router has returned, route_decision is one of silo_a,     *)
(* silo_b, both, and no later step changes it: Silo-A, Silo-B and the      *)
(* synthesizer do not write it, so both conditional edges read one value.  *)
(***************************************************************************)
C10_RouteDecisionStable ==
    /\ [](HasExited("router") => state["route_decision"] \in VALID_ROUTES)
    /\ [][HasExited("router") => state'["route_decision"] = state["route_decision"]]_vars
    /\ [](HasExited("databricks_agent") /\ pc = "azure_agent" => state["route_decision"] = "both")

\* the end reached through both silos, Silo-A having written its result
C10_Witness ==
    /\ pc = "END"
    /\ state["route_decision"] = "both"
    /\ state["context_silo_a"] = "[t1]: c1\n\n[Unknown]: c2"
    /\ HasExited("azure_agent")

(***************************************************************************)
(* C11: the router invokes the text-generation backend at most once in an  *)
(* invocation, a failed call not being tried again, and not at all when    *)
(* the query is empty or the backend is not configured.                    *)
(***************************************************************************)
RouterCalls == {i \in 1..Len(log) : log[i].ev = "call" /\ log[i].node = "router"}

C11_RouterCallsAtMostOnce ==
    /\ Cardinality(RouterCalls) <= 1
    /\ Get(state, "query", <<>>) = <<>> => RouterCalls = {}
    /\ ~settings.azure_openai_configured => RouterCalls = {}
    /\ \A i \in RouterCalls : log[i].k = 1 /\ log[i + 1].ev \in {"reply", "exit"}

\* the one call failed, the router returned its default and the graph went on to its end
C11_Witness ==
    /\ pc = "END"
    /\ Cardinality(RouterCalls) = 1
    /\ ~RouterGotReply
    /\ state["route_decision"] = "both"

(***************************************************************************)
(* C12: router_node appends exactly one diagnostic to errors when the      *)
(* classification call raises, and none in every other case: a valid       *)
(* answer, an answer outside the vocabulary, an unconfigured backend, an   *)
(* empty query.                                                            *)
(***************************************************************************)
RouterDiagnostics == {"Router error: " \o exc : exc \in LlmErrors}
RouterCallRaised == RouterCalled /\ ~RouterGotReply

C12_RouterErrorOnlyOnException ==
    /\ [](HasExited("router") =>
             Len(SelectSeq(state["errors"], LAMBDA e : e \in RouterDiagnostics))
                 = IF RouterCallRaised THEN 1 ELSE 0)
    /\ [][pc = "router" /\ pc' # "raised" =>
             Len(state'["errors"]) = Len(state["errors"]) + IF RouterCallRaised' THEN 1 ELSE 0]_vars

\* the call raised on a redacted query: the filter's diagnostic, then the router's
C12_Witness ==
    /\ HasExited("router")
    /\ RouterCallRaised
    /\ Len(state["errors"]) = 2
    /\ state["errors"][2] = "Router error: API error"

(***************************************************************************)
(* C13: a retrieval agent never raises: whatever the query, the            *)
(* configuration and the failures of its backend (client construction,     *)
(* embedding, search, on any attempt), it returns, and its update holds    *)
(* the context of its silo.                                                *)
(***************************************************************************)
Agents == {"databricks_agent", "azure_agent"}

C13_AgentsNeverRaise ==
    /\ [](\A i \in 1..Len(log) : log[i].ev = "raise" => log[i].node \notin Agents)
    /\ [](HasExited("databricks_agent") => "context_silo_a" \in DOMAIN state)
    /\ [](HasExited("azure_agent") => "context_silo_b" \in DOMAIN state)
    /\ (pc \in Agents) ~> (pc = "synthesizer")

\* Silo-A gave up after its last attempt, Silo-B could not build its client, and both returned
C13_Witness ==
    /\ HasExited("databricks_agent") /\ HasExited("azure_agent")
    /\ \E i \in 1..Len(log) :
          log[i].ev = "fail" /\ log[i].node = "databricks_agent" /\ log[i].k = DATABRICKS_MAX_RETRIES
    /\ \E i \in 1..Len(log) : log[i].ev = "fail" /\ log[i].node = "azure_agent" /\ log[i].k = 0
    /\ state["context_silo_a"] # "" /\ state["context_silo_b"] # ""

(***************************************************************************)
(* What a step of a retrieval agent tells                                  *)
(***************************************************************************)
ContextOf(node) == IF node = "databricks_agent" THEN "context_silo_a" ELSE "context_silo_b"
ConfiguredFor(node) ==
    IF node = "databricks_agent" THEN settings.databricks_configured
    ELSE settings.azure_search_configured
MaxRetriesOf(node) ==
    IF node = "databricks_agent" THEN DATABRICKS_MAX_RETRIES ELSE AZURE_MAX_RETRIES

\* the step in which the agent returns
AgentReturns(node) == pc = node /\ pc' # node
\* what that step appends to the reducer fields
AddedErrors  == SubSeq(state'["errors"], Len(state["errors"]) + 1, Len(state'["errors"]))
AddedSources == SubSeq(state'["sources"], Len(state["sources"]) + 1, Len(state'["sources"]))

\* the log entries of the agent
EntriesOf(node, ev) == {i \in 1..Len(log) : log[i].node = node /\ log[i].ev = ev}
\* the attempts of the agent: of Silo-B one attempt is an embedding and, if that returned, a search
AttemptsOf(node) == {log[i].k : i \in EntriesOf(node, "call")}
\* no attempt of the agent returned rows
NothingReturned(node) == EntriesOf(node, "rows") = {}

(***************************************************************************)
(* C14 as stated: for an unconfigured backend or one whose every attempt   *)
(* fails, every call of the agent, for every query, returns a non-empty    *)
(* context and a non-empty list of sources, with at least one diagnostic   *)
(* in the failing case and none in the unconfigured case.                  *)
(***************************************************************************)
C14_DegradesForEveryQuery ==
    [][\A node \in Agents :
          AgentReturns(node) =>
              /\ ~ConfiguredFor(node) =>
                    /\ state'[ContextOf(node)] # "" /\ AddedSources # <<>>
                    /\ AddedErrors = <<>>
              /\ ConfiguredFor(node) /\ NothingReturned(node)' =>
                    /\ state'[ContextOf(node)] # "" /\ AddedSources # <<>>
                    /\ Len(AddedErrors) >= 1]_vars

(***************************************************************************)
(* C14 amended: the same for every query that is not empty (the empty      *)
(* query gets the empty context, no sources and a diagnostic whatever the  *)
(* backend, see C15).                                                      *)
(***************************************************************************)
C14_DegradesForNonEmptyQuery ==
    [][\A node \in Agents :
          AgentReturns(node) /\ state["query"] # <<>> =>
              /\ ~ConfiguredFor(node) =>
                    /\ state'[ContextOf(node)] # "" /\ AddedSources # <<>>
                    /\ AddedErrors = <<>>
              /\ ConfiguredFor(node) /\ NothingReturned(node)' =>
                    /\ state'[ContextOf(node)] # "" /\ AddedSources # <<>>
                    /\ Len(AddedErrors) >= 1]_vars

\* Silo-A unconfigured gave its mock data, Silo-B failed three times and gave its fallback
C14_Witness ==
    /\ pc = "synthesizer"
    /\ state["query"] # <<>>
    /\ ~settings.databricks_configured /\ settings.azure_search_configured
    /\ AttemptsOf("azure_agent") = 1..AZURE_MAX_RETRIES /\ NothingReturned("azure_agent")
    /\ Get(state, "context_silo_a", "") = DATABRICKS_MOCK_CONTEXT
    /\ Get(state, "context_silo_b", "") = AZURE_MOCK_CONTEXT
    /\ Len(state["sources"]) = 3

(***************************************************************************)
(* C15: for an empty query each agent returns the empty string as its      *)
(* context and one diagnostic, adds no sources and makes no attempt on its *)
(* backend (no client, no call, no sleep), configured or not.              *)
(***************************************************************************)
C15_EmptyQueryEmptyContext ==
    [][\A node \in Agents :
          AgentReturns(node) /\ state["query"] = <<>> =>
              /\ state'[ContextOf(node)] = ""
              /\ AddedErrors \in { <<"Databricks agent received empty query">>,
                                   <<"Azure agent received empty query">> }
              /\ AddedSources = <<>>
              /\ Len(log') = Len(log) + 2
              /\ SubSeq(log', 1, Len(log) + 1) = log \o <<Enter(node)>>
              /\ log'[Len(log') ].ev = "exit"]_vars

\* both agents, their backends configured, returned on an empty query
C15_Witness ==
    /\ pc = "synthesizer"
    /\ state["query"] = <<>>
    /\ settings.databricks_configured /\ settings.azure_search_configured
    /\ Get(state, "context_silo_a", "?") = "" /\ Get(state, "context_silo_b", "?") = ""
    /\ state["errors"] = <<"Databricks agent received empty query",
                           "Azure agent received empty query">>

(***************************************************************************)
(* C16: an agent whose backend is not configured returns at once: it       *)
(* builds no client, makes no embedding and no search, and never sleeps.   *)
(***************************************************************************)
C16_UnconfiguredNeverAttempts ==
    \A node \in Agents :
        ~ConfiguredFor(node) =>
            \A i \in 1..Len(log) : log[i].node = node => log[i].ev \in {"enter", "exit"}

\* Silo-B, not configured, returned its mock data for a query that is not empty
C16_Witness ==
    /\ HasExited("azure_agent")
    /\ ~settings.azure_search_configured
    /\ state["query"] # <<>>
    /\ state["context_silo_b"] = AZURE_MOCK_CONTEXT

(***************************************************************************)
(* C17: for a configured backend and a query that is not empty, an agent   *)
(* call makes at least one and at most MAX_RETRIES attempts (2 for Silo-A, *)
(* 3 for Silo-B); the attempts end with the first that succeeds, and a new *)
(* one is made only after the one before failed.                           *)
(***************************************************************************)
C17_AttemptsBounded ==
    /\ DATABRICKS_MAX_RETRIES = 2 /\ AZURE_MAX_RETRIES = 3
    /\ \A node \in Agents :
          ConfiguredFor(node) /\ HasExited(node) /\ state["query"] # <<>> =>
              /\ \E n \in 1..MaxRetriesOf(node) : AttemptsOf(node) = 1..n
              /\ \A i \in EntriesOf(node, "rows") :
                    log[i].k \in AttemptsOf(node) /\ log[i + 1].ev = "exit"
              /\ \A i \in EntriesOf(node, "call") :
                    log[i].k > 1 /\ log[i - 1].ev # "call" =>
                        /\ log[i - 1].ev = "sleep"
                        /\ log[i - 2].ev = "fail" /\ log[i - 2].k = log[i].k - 1

(***************************************************************************)
(* C18: after the failure of attempt k the agent sleeps 1.5^k seconds      *)
(* before the next attempt (3/2 after the first, 9/4 after the second), so *)
(* the waits grow; it sleeps only between two attempts: not before the     *)
(* first, not after a success, not after the last failure, so MAX_RETRIES  *)
(* failures come with MAX_RETRIES - 1 sleeps.                              *)
(***************************************************************************)
Less(a, b) == a[1] * b[2] < b[1] * a[2]

C18_BackoffBetweenAttempts ==
    \A node \in Agents :
        /\ \A i \in EntriesOf(node, "sleep") :
              /\ log[i].k \in 1..(MaxRetriesOf(node) - 1)
              /\ log[i].wait = IF log[i].k = 1 THEN <<3, 2>> ELSE <<9, 4>>
              /\ log[i - 1].ev = "fail" /\ log[i - 1].node = node /\ log[i - 1].k = log[i].k
              /\ i < Len(log) =>
                    /\ log[i + 1].ev = "call" /\ log[i + 1].node = node
                    /\ log[i + 1].k = log[i].k + 1
              /\ \A j \in EntriesOf(node, "sleep") : i < j => Less(log[i].wait, log[j].wait)
        /\ \A i \in EntriesOf(node, "rows") : log[i + 1].ev = "exit"
        /\ \A i \in EntriesOf(node, "fail") :
              /\ log[i].k \in {0, MaxRetriesOf(node)} => log[i + 1].ev = "exit"
              /\ log[i].k = MaxRetriesOf(node) =>
                    Cardinality(EntriesOf(node, "sleep")) = MaxRetriesOf(node) - 1
              /\ log[i].k \in 1..(MaxRetriesOf(node) - 1) /\ i < Len(log) =>
                    log[i + 1].ev = "sleep"

\* Silo-B slept 3/2 and 9/4 seconds between its three failures and then gave up
C18_Witness ==
    /\ HasExited("azure_agent")
    /\ \E i, j \in EntriesOf("azure_agent", "sleep") :
          i < j /\ log[i].wait = <<3, 2>> /\ log[j].wait = <<9, 4>>
    /\ \E i \in EntriesOf("azure_agent", "fail") : log[i].k = AZURE_MAX_RETRIES

(***************************************************************************)
(* C19: when every attempt up to the last fails, the agent catches the     *)
(* last failure and returns the mock context with the one fallback source, *)
(* appending exactly one diagnostic, which names that last failure.        *)
(***************************************************************************)
LastFailure(node) ==
    {log[i].exc : i \in {j \in EntriesOf(node, "fail") : log[j].k = MaxRetriesOf(node)}}

C19_ExhaustionFallsBack ==
    [][/\ AgentReturns("databricks_agent") =>
            \A exc \in LastFailure("databricks_agent")' :
                /\ state'["context_silo_a"] = "[MOCK DATA - Databricks Vector Search unavailable]"
                /\ AddedSources = <<"[MOCK/FALLBACK] Databricks data">>
                /\ AddedErrors = <<"Databricks agent error (using mock fallback): " \o exc>>
       /\ AgentReturns("azure_agent") =>
            \A exc \in LastFailure("azure_agent")' :
                /\ state'["context_silo_b"] = "[MOCK DATA - Azure AI Search unavailable]"
                /\ AddedSources = <<"[MOCK/FALLBACK] Azure data">>
                /\ AddedErrors = <<"Azure agent error (using mock fallback): " \o exc>>]_vars

\* Silo-A failed with a timeout, then with unavailable: the diagnostic names the second
C19_Witness ==
    /\ HasExited("databricks_agent")
    /\ \E i, j \in EntriesOf("databricks_agent", "fail") :
          /\ log[i].k = 1 /\ log[i].exc = "timeout"
          /\ log[j].k = DATABRICKS_MAX_RETRIES /\ log[j].exc = "unavailable"
    /\ \E i \in 1..Len(state["errors"]) :
          state["errors"][i] = "Databricks agent error (using mock fallback): unavailable"

(***************************************************************************)
(* C20: an attempt that succeeds with no row is a success: the agent       *)
(* returns the fixed "no relevant documents found" message as context and  *)
(* no source, appends no diagnostic, makes no further attempt and does not *)
(* take the mock data.                                                     *)
(***************************************************************************)
NoRows(node) == \E i \in EntriesOf(node, "rows") : log[i].n = 0

C20_NoRowsIsSuccess ==
    /\ [][/\ AgentReturns("databricks_agent") /\ NoRows("databricks_agent")' =>
                /\ state'["context_silo_a"] = "No relevant engineering documents found."
                /\ AddedSources = <<>> /\ AddedErrors = <<>>
          /\ AgentReturns("azure_agent") /\ NoRows("azure_agent")' =>
                /\ state'["context_silo_b"] = "No relevant patent documents found."
                /\ AddedSources = <<>> /\ AddedErrors = <<>>]_vars
    /\ [](\A node \in Agents :
             \A i \in EntriesOf(node, "rows") :
                 log[i].n = 0 =>
                     /\ log[i + 1].ev = "exit"
                     /\ \A j \in EntriesOf(node, "call") : j < i /\ log[j].k <= log[i].k)

\* the second attempt of Silo-B found nothing, and the graph went on without a Silo-B diagnostic
C20_Witness ==
    /\ pc = "END"
    /\ \E i \in EntriesOf("azure_agent", "rows") : log[i].n = 0 /\ log[i].k = 2
    /\ state["context_silo_b"] = "No relevant patent documents found."
    /\ state["sources"] = <<>>
    /\ state["errors"] = <<>>

(***************************************************************************)
(* The Synthesizer                                                         *)
(***************************************************************************)
SynthesizerRuns == pc = "synthesizer" /\ pc' # "synthesizer"
\* the Synthesizer built its client or called the generation backend
SynthesizerReached(entries) ==
    \E i \in 1..Len(entries) :
        entries[i].node = "synthesizer" /\ entries[i].ev \in {"construct", "call"}
SynthesizerCallFailed(entries) ==
    \E i \in 1..Len(entries) : entries[i].node = "synthesizer" /\ entries[i].ev = "fail"

(***************************************************************************)
(* C21: when both contexts are empty the Synthesizer returns, with the     *)
(* fixed 'nothing found' message as synthesized_answer and exactly one     *)
(* diagnostic appended to errors, and neither builds a client nor calls    *)
(* the generation backend, configured or not.                              *)
(***************************************************************************)
C21_BothEmptyNothingFound ==
    [][SynthesizerRuns /\ state["context_silo_a"] = "" /\ state["context_silo_b"] = "" =>
          /\ pc' = "END"
          /\ state'["synthesized_answer"] = "No relevant information found in either data silo."
          /\ AddedErrors = <<"Synthesizer: both silos returned empty context">>
          /\ ~SynthesizerReached(log')]_vars

\* both contexts empty, a query, the generation backend configured
C21_Witness ==
    /\ http = "unit" /\ pc = "END"
    /\ settings.azure_openai_configured
    /\ state["query"] = <<"x">>
    /\ state["context_silo_a"] = "" /\ state["context_silo_b"] = ""
    /\ state["synthesized_answer"] = "No relevant information found in either data silo."
    /\ Len(state["errors"]) = 1

(***************************************************************************)
(* C22: with the generation backend unconfigured and a non-empty context,  *)
(* the Synthesizer neither builds a client nor calls the backend, appends  *)
(* no error, and its answer is the query header followed by one labeled    *)
(* section for each non-empty context and for no other.                    *)
(***************************************************************************)
C22_UnconfiguredConcatenates ==
    [][/\ SynthesizerRuns
       /\ ~settings.azure_openai_configured
       /\ state["context_silo_a"] # "" \/ state["context_silo_b"] # ""
       => /\ pc' = "END"
          /\ ~SynthesizerReached(log')
          /\ AddedErrors = <<>>
          /\ state'["synthesized_answer"] =
                "## Query: " \o Str(state["query"]) \o "\n\n"
                \o (IF state["context_silo_a"] = "" THEN ""
                    ELSE "### From Engineering Docs (Silo A)\n" \o state["context_silo_a"] \o "\n\n")
                \o (IF state["context_silo_b"] = "" THEN ""
                    ELSE "### From Patents (Silo B)\n" \o state["context_silo_b"] \o "\n\n")]_vars

\* only Silo-A gave a context: the answer has the header and the one section
C22_Witness ==
    /\ http = "unit" /\ pc = "END"
    /\ ~settings.azure_openai_configured
    /\ state["query"] = <<"x">>
    /\ state["context_silo_a"] = "Internal doc about gears" /\ state["context_silo_b"] = ""
    /\ state["synthesized_answer"] =
          "## Query: x\n\n### From Engineering Docs (Silo A)\nInternal doc about gears\n\n"
    /\ state["errors"] = <<>>

(***************************************************************************)
(* C23 as stated: when the generation call fails, the answer is the        *)
(* labeled concatenation the unconfigured case gives for the same query    *)
(* and contexts (the same query header, the same section headings) with a  *)
(* 'synthesis error' marker added, and exactly one diagnostic is appended. *)
(* The code writes other headings and no query header.                     *)
(***************************************************************************)
SynthesisErrorMarker == "[Synthesis error - raw data follows]\n\n"

C23_FailureGivesUnconfiguredAnswer ==
    [][SynthesizerRuns /\ SynthesizerCallFailed(log') =>
          LET unconfigured == synthesizer_node(state, NoLlm)["synthesized_answer"]
          IN  /\ state'["synthesized_answer"] \in { SynthesisErrorMarker \o unconfigured,
                                                   unconfigured \o SynthesisErrorMarker }
              /\ Len(AddedErrors) = 1]_vars

(***************************************************************************)
(* C24: the Synthesizer calls the generation backend at most once; when    *)
(* the call failed, synthesized_answer is written all the same, the        *)
(* Synthesizer has returned and the invocation has not raised.             *)
(***************************************************************************)
C24_SynthesizerCallsAtMostOnce ==
    /\ Cardinality(EntriesOf("synthesizer", "call")) <= 1
    /\ SynthesizerCallFailed(log) =>
          /\ pc = "END"
          /\ HasExited("synthesizer")
          /\ "synthesized_answer" \in DOMAIN state
          /\ response.status # "500"

\* the one call of the Synthesizer failed and the caller got its answer
C24_Witness ==
    /\ http = "done" /\ response.status = "200"
    /\ SynthesizerCallFailed(log)
    /\ Cardinality(EntriesOf("synthesizer", "call")) = 1
    /\ response.answer = state["synthesized_answer"]

(***************************************************************************)
(* The returns of the stages                                               *)
(***************************************************************************)
\* the returns of the stages, in the order they happened
Returns == SelectSeq(log, LAMBDA e : e.ev = "exit")

\* what the returns handed to a reducer field, one after the other
RECURSIVE Contributed(_, _)
Contributed(entries, field) ==
    IF entries = <<>> THEN <<>>
    ELSE entries[1][field] \o Contributed(Tail(entries), field)

StageRank(node) ==
    CASE node = "pii_filter"       -> 1
      [] node = "router"           -> 2
      [] node = "databricks_agent" -> 3
      [] node = "azure_agent"      -> 4
      [] node = "synthesizer"      -> 5

OverwriteFields == {"query", "route_decision", "context_silo_a", "context_silo_b",
                    "synthesized_answer", "pii_detected"}

WriterOf(field) ==
    CASE field \in {"query", "pii_detected"} -> "pii_filter"
      [] field = "route_decision"            -> "router"
      [] field = "context_silo_a"            -> "databricks_agent"
      [] field = "context_silo_b"            -> "azure_agent"
      [] field = "synthesized_answer"        -> "synthesizer"

\* the returns that wrote the field
WritesOf(field) == {i \in 1..Len(Returns) : field \in Returns[i].wrote}

C26_SingleWriter ==
    /\ [](\A field \in OverwriteFields :
             /\ \A i \in WritesOf(field) : Returns[i].node = WriterOf(field)
             /\ Cardinality(WritesOf(field)) <= 1)
    /\ [](pc = "END" => Cardinality(WritesOf("synthesized_answer")) = 1)
    /\ [][\A field \in OverwriteFields :
             /\ DOMAIN state # {}
             /\ field \in DOMAIN state'
             /\ field \notin DOMAIN state \/ state'[field] # state[field]
             => pc = WriterOf(field)]_vars
    /\ [][HasExited("pii_filter") => state'["query"] = state["query"]]_vars

\* a finished run in which every overwrite field was written, query included
C26_Witness ==
    /\ pc = "END"
    /\ \A field \in OverwriteFields : Cardinality(WritesOf(field)) = 1
    /\ state["query"] # request["query"]

(***************************************************************************)
(* C27: with no backend configured, a request whose query is non-empty and *)
(* holds no PII is answered 200 with route_decision 'both', pii_detected   *)
(* false, the answer made of the query header and the two labeled          *)
(* substitute-data sections, Silo A then Silo B, the mock references of    *)
(* both agents as sources and no errors; no client is built and no backend *)
(* is called on the way.                                                   *)
(***************************************************************************)
NothingConfigured ==
    /\ ~settings.azure_openai_configured
    /\ ~settings.azure_search_configured
    /\ ~settings.databricks_configured

BackendReached ==
    \E i \in 1..Len(log) : log[i].ev \in {"construct", "call"}

C27_AllMockAnswer ==
    /\ NothingConfigured
    /\ http \in {"invoking", "done"}
    /\ Valid(request)
    /\ detect_pii(request["query"]) = <<>>
    => /\ ~BackendReached
       /\ pc # "raised"
       /\ http = "done" =>
             response =
                [status         |-> "200",
                 answer         |-> "## Query: " \o Str(request["query"]) \o "\n\n"
                                    \o "### From Engineering Docs (Silo A)\n"
                                    \o DATABRICKS_MOCK_CONTEXT \o "\n\n"
                                    \o "### From Patents (Silo B)\n"
                                    \o AZURE_MOCK_CONTEXT \o "\n\n",
                 sources        |-> <<"[MOCK] Databricks/ML Pipeline Architecture v2.3",
                                      "[MOCK] Databricks/Signal Processing Module",
                                      "[MOCK] Azure/US-2024-0112233/Neural Architecture",
                                      "[MOCK] Azure/EP-3987654/Distributed Feature Engineering">>,
                 route_decision |-> "both",
                 pii_detected   |-> FALSE,
                 errors         |-> <<>>]

\* the request {"query": "x"} answered with nothing configured
C27_Witness ==
    /\ NothingConfigured
    /\ http = "done"
    /\ request = [query |-> <<"x">>]
    /\ response.status = "200"
    /\ response.route_decision = "both"
    /\ Len(response.sources) = 4

(***************************************************************************)
(* C28 as stated: for every query in which PII is found, pii_detected is   *)
(* true in the response and the string a PII pattern matched in the        *)
(* request's query is in no field of the final state or the response and   *)
(* in no argument of a backend call. The query is the one place text of    *)
(* the request enters: the filter must leave no matched string in the      *)
(* query it writes, no later step may change that query, every call must   *)
(* carry it, and the response must report the state's pii_detected.        *)
(* sanitize_query leaves a later occurrence of a matched string in place   *)
(* when a word character follows it.                                       *)
(***************************************************************************)
C28_MatchedPiiNowhere ==
    /\ [][pc = "pii_filter" /\ pc' # "pii_filter" =>
             \A name \in PatternNames :
                 LET matched == Found(state["query"])[name]
                 IN  matched # <<>> =>
                        /\ state'["pii_detected"]
                        /\ ~OccursIn(matched, state'["query"])]_vars
    /\ [][HasExited("pii_filter") => state'["query"] = state["query"]]_vars
    /\ [](\A i \in 1..Len(log) : log[i].ev = "call" => log[i].text = state["query"])
    /\ [](http = "done" /\ response.status = "200" =>
             response.pii_detected = state["pii_detected"])

(***************************************************************************)
(* C29: a request whose query is empty or missing is rejected by the HTTP  *)
(* layer with status 422 before the pipeline runs: the graph is never      *)
(* invoked, no stage is entered and no backend is reached.                 *)
(***************************************************************************)
OverHttp == http \in {"received", "invoking", "done"}

C29_EmptyQueryRejected ==
    /\ OverHttp
    /\ "query" \notin DOMAIN request \/ request["query"] = <<>>
    => /\ http # "invoking"
       /\ pc = "START" /\ DOMAIN state = {}
       /\ log = <<>>
       /\ http = "done" => response = [status |-> "422"]

\* the request {"query": ""} was answered 422
C29_Witness ==
    /\ http = "done"
    /\ request = [query |-> <<>>]
    /\ response.status = "422"
    /\ log = <<>>

(***************************************************************************)
(* C30 as stated: no failure of a backend, the construction of its client  *)
(* included, makes the pipeline fail: no exception leaves a stage and the  *)
(* handler never answers 500. The router and the synthesizer build their   *)
(* client outside their try.                                               *)
(***************************************************************************)
C30_BackendFailureNeverFails ==
    /\ pc # "raised"
    /\ \A i \in 1..Len(log) : log[i].ev # "raise"
    /\ response.status # "500"

(***************************************************************************)
(* C31 as stated: a backoff sleep blocks only the retrieval step of the    *)
(* request that retries: while the agent of one request sleeps between two *)
(* attempts, another request the process has received can start. The       *)
(* sleep is time.sleep inside a coroutine of the event loop: nothing else  *)
(* runs until the handler returns.                                         *)
(***************************************************************************)
Sleeping == pc \in Agents /\ agent.phase = "sleep"

C31_SleepBlocksOnlyItsRequest ==
    Sleeping /\ peer.http = "received" => ENABLED Switch

(***************************************************************************)
(* C32: two requests share no mutable state. Every step is either the      *)
(* hand-over of the thread, which exchanges the two records as they are,   *)
(* or a step of the single invocation that leaves the other request's      *)
(* record as it was; the record of a request starts fresh from its own     *)
(* query; and in either record errors and sources are at all times what    *)
(* the returns of that request's own stages handed in, so no entry of one  *)
(* request is in the record of the other and each record is the one the    *)
(* request gets alone with the same backend responses.                     *)
(***************************************************************************)
ReturnsIn(entries) == SelectSeq(entries, LAMBDA e : e.ev = "exit")

\* the reducer lists of a record hold what its own returns handed in
OwnEntriesOnly(record) ==
    DOMAIN record.state # {} =>
        /\ record.state["errors"] = Contributed(ReturnsIn(record.log), "errors")
        /\ record.state["sources"] = Contributed(ReturnsIn(record.log), "sources")

AgentList(decision) ==
    IF decision = "silo_a" THEN <<"databricks_agent">>
    ELSE IF decision = "silo_b" THEN <<"azure_agent">>
    ELSE <<"databricks_agent", "azure_agent">>

\* the stage the orchestrator runs after `node`, iterating `agents`
OrchestratorNext(node, agents) ==
    IF node = "router" THEN agents[1]
    ELSE LET i == CHOOSE j \in 1..Len(agents) : agents[j] = node
         IN  IF i < Len(agents) THEN agents[i + 1] ELSE "synthesizer"

C33_GraphIsListOrchestrator ==
    /\ [][pc = "router" /\ pc' \notin {"router", "raised"} =>
             /\ state'["route_decision"] \in VALID_ROUTES
             /\ pc' = OrchestratorNext("router", AgentList(state'["route_decision"]))]_vars
    /\ [][pc' # pc /\ pc \in Agents =>
             LET agents == AgentList(state["route_decision"])
             IN  (\E j \in 1..Len(agents) : agents[j] = pc)
                    /\ pc' = OrchestratorNext(pc, agents)]_vars
    /\ [](pc = "END" =>
             Stages = <<"pii_filter", "router">> \o AgentList(state["route_decision"])
                         \o <<"synthesizer">>)

\* the Router said silo_a: the list is Silo-A alone, and so was the run
C33_Witness ==
    /\ pc = "END"
    /\ state["route_decision"] = "silo_a"
    /\ Stages = <<"pii_filter", "router", "databricks_agent", "synthesizer">>
    /\ "context_silo_b" \notin DOMAIN state

(***************************************************************************)
(* C34: when the successful attempt of an agent returned n >= 1 rows, the  *)
(* agent returns n context lines '[<title>]: <content>' joined by blank    *)
(* lines and n references '<Backend>/<source or parent>/<title>', line i   *)
(* and reference i built from row i, with 'Unknown' and 'databricks'       *)
(* (Silo-A) or 'Unknown Patent' and 'azure' (Silo-B) for a title or an     *)
(* identifier the row lacks; it appends no error and none of the mock data.*)
(***************************************************************************)
\* has(row, k): the row holds the k-th of content, title, identifier; at(row, k): its value
ContextLine(row, has(_, _), at(_, _), no_title) ==
    "[" \o (IF has(row, 2) THEN at(row, 2) ELSE no_title) \o "]: "
        \o (IF has(row, 1) THEN at(row, 1) ELSE "")

Reference(row, has(_, _), at(_, _), backend, no_title, no_id) ==
    backend \o "/" \o (IF has(row, 3) THEN at(row, 3) ELSE no_id)
            \o "/" \o (IF has(row, 2) THEN at(row, 2) ELSE no_title)

ListHas(row, k) == k <= Len(row)
ListAt(row, k)  == row[k]
DictKey(k)      == <<"chunk", "title", "parent_id">>[k]
DictHas(row, k) == DictKey(k) \in DOMAIN row
DictAt(row, k)  == row[DictKey(k)]

MockSources ==
    {"[MOCK] Databricks/ML Pipeline Architecture v2.3", "[MOCK] Databricks/Signal Processing Module",
     "[MOCK/FALLBACK] Databricks data",
     "[MOCK] Azure/US-2024-0112233/Neural Architecture",
     "[MOCK] Azure/EP-3987654/Distributed Feature Engineering", "[MOCK/FALLBACK] Azure data"}

\* the rows the agent's successful attempt returned, <<>> when none did
RowsOf(node, entries) ==
    LET found == {i \in 1..Len(entries) : entries[i].node = node /\ entries[i].ev = "rows"}
    IN  IF found = {} THEN <<>> ELSE entries[CHOOSE i \in found : TRUE].rows

C34_RowsBecomeLinesAndReferences ==
    [][/\ AgentReturns("databricks_agent") /\ RowsOf("databricks_agent", log') # <<>> =>
            LET rows == RowsOf("databricks_agent", log')
            IN  /\ state'["context_silo_a"] =
                      JoinParts([i \in 1..Len(rows) |->
                                    ContextLine(rows[i], ListHas, ListAt, "Unknown")])
                /\ AddedSources =
                      [i \in 1..Len(rows) |->
                          Reference(rows[i], ListHas, ListAt, "Databricks", "Unknown", "databricks")]
                /\ AddedErrors = <<>>
                /\ \A i \in 1..Len(AddedSources) : AddedSources[i] \notin MockSources
       /\ AgentReturns("azure_agent") /\ RowsOf("azure_agent", log') # <<>> =>
            LET rows == RowsOf("azure_agent", log')
            IN  /\ state'["context_silo_b"] =
                      JoinParts([i \in 1..Len(rows) |->
                                    ContextLine(rows[i], DictHas, DictAt, "Unknown Patent")])
                /\ AddedSources =
                      [i \in 1..Len(rows) |->
                          Reference(rows[i], DictHas, DictAt, "Azure", "Unknown Patent", "azure")]
                /\ AddedErrors = <<>>
                /\ \A i \in 1..Len(AddedSources) : AddedSources[i] \notin MockSources]_vars

\* both agents got two rows, the second lacking its title and its identifier
C34_Witness ==
    /\ pc = "END"
    /\ Get(state, "context_silo_a", "") = "[t1]: c1\n\n[Unknown]: c2"
    /\ Get(state, "context_silo_b", "") = "[t1]: k1\n\n[Unknown Patent]: k2"
    /\ state["sources"] = <<"Databricks/s1/t1", "Databricks/databricks/Unknown",
                            "Azure/p1/t1", "Azure/azure/Unknown Patent">>
    /\ state["errors"] = <<>>

(***************************************************************************)
(* The two conditional edges of graph.py                                   *)
(***************************************************************************)
\* the states the edge functions are compared on: route_decision missing,
\* one of the three valid values, or another text
EdgeInputs ==
    {[query |-> <<"x">>]}
        \cup {[query |-> <<"x">>, route_decision |-> r] : r \in VALID_ROUTES \cup {"silo_c"}}

\* the initial edge wants Silo-B after Silo-A and the continuation check does not, or the reverse
Disagree(s) ==
    (route_decision_edge(s) = "both_silos") # (after_databricks_edge(s) = "azure_agent")

\* whenever an edge is evaluated route_decision is present and valid, and the
\* continuation check goes where the initial edge's branch says
EdgesAgreeWhenEvaluated ==
    /\ [][pc = "router" /\ pc' \notin {"router", "raised"} =>
             /\ "route_decision" \in DOMAIN state'
             /\ state'["route_decision"] \in VALID_ROUTES]_vars
    /\ [][pc = "databricks_agent" /\ pc' # pc =>
             /\ "route_decision" \in DOMAIN state'
             /\ state'["route_decision"] \in VALID_ROUTES
             /\ pc' = "azure_agent" <=> route_decision_edge(state') = "both_silos"
             /\ pc' = "synthesizer" <=> route_decision_edge(state') = "silo_a_only"]_vars

(***************************************************************************)
(* C35 as stated: where the continuation check after Silo-A is evaluated   *)
(* it agrees with the initial edge, route_decision is never missing or     *)
(* invalid when an edge is evaluated, and the two edge functions disagree  *)
(* only for a missing route_decision.                                      *)
(***************************************************************************)
C35_EdgesDisagreeOnlyWhenMissing ==
    /\ EdgesAgreeWhenEvaluated
    /\ [](\A s \in EdgeInputs : Disagree(s) => "route_decision" \notin DOMAIN s)

(***************************************************************************)
(* C35 amended: the same, but the two edge functions disagree for a        *)
(* missing route_decision and for every value outside the three valid      *)
(* ones: the initial edge takes the 'both' branch for any of these, the    *)
(* continuation check goes to the Synthesizer.                             *)
(***************************************************************************)
C35_EdgesDisagreeWhenMissingOrInvalid ==
    /\ EdgesAgreeWhenEvaluated
    /\ [](\A s \in EdgeInputs :
             Disagree(s) <=> \/ "route_decision" \notin DOMAIN s
                             \/ s["route_decision"] \notin VALID_ROUTES)

\* the continuation check was evaluated on 'silo_a' and went to the Synthesizer
C35_Witness ==
    /\ pc = "synthesizer"
    /\ state["route_decision"] = "silo_a"
    /\ HasExited("databricks_agent")
    /\ route_decision_edge(state) = "silo_a_only"
    /\ ~Disagree(state)

(***************************************************************************)
(* C36: a non-empty incoming query is non-empty after the PII filter,      *)
(* every agent that ran left a non-empty context for its silo, and the     *)
(* Synthesizer did not take its 'nothing found' branch; the empty-query    *)
(* branch of the agents and that branch of the Synthesizer are taken only  *)
(* by an invocation with an empty query, which is never one of the HTTP    *)
(* layer: over HTTP no stage runs on an empty query.                       *)
(***************************************************************************)
EmptyInputDiagnostics ==
    {"Databricks agent received empty query", "Azure agent received empty query",
     "Synthesizer: both silos returned empty context"}

\* a stage took its branch for an empty input
EmptyBranchTaken ==
    \/ \E i \in 1..Len(Get(state, "errors", <<>>)) : state["errors"][i] \in EmptyInputDiagnostics
    \/ Get(state, "synthesized_answer", "") = "No relevant information found in either data silo."

C36_NonEmptyStaysNonEmpty ==
    /\ DOMAIN state # {} /\ request["query"] # <<>> =>
          /\ state["query"] # <<>>
          /\ HasExited("databricks_agent") => state["context_silo_a"] # ""
          /\ HasExited("azure_agent") => state["context_silo_b"] # ""
          /\ ~EmptyBranchTaken
    /\ EmptyBranchTaken => request["query"] = <<>> /\ http = "direct"
    /\ OverHttp /\ DOMAIN state # {} => request["query"] # <<>>

\* a query that is an e-mail address and nothing else: the token is what remains
C36_Witness ==
    /\ http = "done"
    /\ request = [query |-> EmailText]
    /\ state["query"] = RedactionToken(<<"e", "m", "a", "i", "l">>)
    /\ HasExited("databricks_agent") /\ HasExited("azure_agent")
    /\ response.status = "200"

(***************************************************************************)
(* C37 as stated: a failure recovered by a later attempt leaves no trace:  *)
(* when attempt k > 1 of an agent returned rows after the earlier attempts *)
(* failed, the agent returns the context and the references made of those  *)
(* rows, appends nothing to errors and returns no mock-marked source; and  *)
(* an agent appends a diagnostic only for an empty query or when all its   *)
(* attempts failed. An agent whose client cannot be built appends one      *)
(* without having made an attempt.                                         *)
(***************************************************************************)
\* the agent's attempt that returned, 0 when none did
ReturningAttempt(node, entries) ==
    LET found == {i \in 1..Len(entries) : entries[i].node = node /\ entries[i].ev = "rows"}
    IN  IF found = {} THEN 0 ELSE entries[CHOOSE i \in found : TRUE].k

RecoveredLeavesNoTrace ==
    \A node \in Agents :
        AgentReturns(node) /\ ReturningAttempt(node, log') > 1 =>
            /\ AttemptsOf(node)' = 1..ReturningAttempt(node, log')
            /\ AddedErrors = <<>>
            /\ \A i \in 1..Len(AddedSources) : AddedSources[i] \notin MockSources
            /\ state'[ContextOf(node)] \notin {DATABRICKS_MOCK_CONTEXT, AZURE_MOCK_CONTEXT}
            /\ <<state'[ContextOf(node)], AddedSources>> =
                  IF node = "databricks_agent"
                  THEN DatabricksResult(RowsOf(node, log'))
                  ELSE AzureResult(RowsOf(node, log'))

C37_DiagnosticOnlyOnExhaustion ==
    [][/\ RecoveredLeavesNoTrace
       /\ \A node \in Agents :
             AgentReturns(node) /\ AddedErrors # <<>> =>
                 \/ state["query"] = <<>>
                 \/ /\ AttemptsOf(node)' = 1..MaxRetriesOf(node)
                    /\ NothingReturned(node)']_vars

(***************************************************************************)
(* C38: once the PII filter has returned, three facts hold together or not *)
(* at all: pii_detected is true; the filter wrote the query, a text other  *)
(* than the incoming one; errors holds exactly one 'PII detected and       *)
(* redacted' entry, as its first entry. When pii_detected is false the     *)
(* query is the incoming one and errors holds no such entry.               *)
(***************************************************************************)
\* the entries the PII filter can make for the queries of the pipeline
PiiMessages == {"PII detected and redacted: " \o Join(detect_pii(q)) : q \in Queries \ {<<>>}}

PiiEntries == {i \in 1..Len(state["errors"]) : state["errors"][i] \in PiiMessages}

\* the PII filter's return wrote the query
FilterWroteQuery == \E i \in WritesOf("query") : Returns[i].node = "pii_filter"

C38_PiiFactsEquivalent ==
    HasExited("pii_filter") =>
        /\ state["pii_detected"] <=> FilterWroteQuery /\ state["query"] # request["query"]
        /\ state["pii_detected"] <=> PiiEntries = {1}
        /\ ~state["pii_detected"] =>
              /\ ~FilterWroteQuery
              /\ state["query"] = request["query"]
              /\ PiiEntries = {}

\* PII was found: the query is another text, and the entry of the filter is
\* followed by the Router's
C38_Witness ==
    /\ pc = "END"
    /\ state["pii_detected"]
    /\ request = [query |-> EmailText]
    /\ state["query"] # EmailText
    /\ Len(state["errors"]) >= 2
    /\ PiiEntries = {1}

(***************************************************************************)
(* C39: a 200 response of /invoke holds what the stages set: its           *)
(* route_decision is the state's, one of the three valid values and never  *)
(* 'unknown'; its answer is the synthesized_answer the Synthesizer wrote   *)
(* and never 'No answer generated'; its pii_detected is the flag the PII   *)
(* filter wrote. The defaults of the handler are never used.               *)
(***************************************************************************)
C39_ResponseReflectsState ==
    http = "done" /\ response.status = "200" =>
        /\ {"route_decision", "synthesized_answer", "pii_detected", "sources", "errors"}
              \subseteq DOMAIN state
        /\ response.route_decision = state["route_decision"]
        /\ response.route_decision \in VALID_ROUTES
        /\ response.answer = state["synthesized_answer"]
        /\ Cardinality(WritesOf("synthesized_answer")) = 1
        /\ response.answer # "No answer generated"
        /\ response.pii_detected = state["pii_detected"]
        /\ Cardinality(WritesOf("pii_detected")) = 1

\* a response with the Router's silo_b, the flag of the filter and the answer of the backend
C39_Witness ==
    /\ http = "done" /\ response.status = "200"
    /\ response.route_decision = "silo_b"
    /\ response.pii_detected
    /\ response.answer = "LLM answer"

=============================================================================
